---- MODULE Spec2Model ----
(***************************************************************************)
(* Echoes of the Void: the zustand game store (src/unnamed/part_001), its  *)
(* session counter and the generator round-trips it awaits.                *)
(*                                                                         *)
(* JavaScript runs each handler to its await without interruption, so an   *)
(* operation is one step up to `await generateNarrative(...)` and its      *)
(* continuation (the rest of try / catch / finally) is a second step that  *)
(* fires when the call resolves.                                           *)
(***************************************************************************)
EXTENDS Integers, Sequences, FiniteSets, TLC

\* ------------------------------------------------------------------ bounds
MaxSession == 2     \* resetGame / setTheme invocations explored
MaxOps == 3         \* initializeGame / submitCommand invocations that pass their guard
MaxChange == 11     \* health changes of the applicator specification, in tens
MaxLog == 3         \* log length the applicator specification fills
MaxText == 4        \* longest text handed to createTypewriter
MaxCalls == 4       \* controller methods called on one typewriter
MaxHalves == 3      \* numbers offered to the validator: -MaxHalves/2 .. MaxHalves/2
MaxTurns == 12      \* longest history handed to buildContext
MaxWords == 3       \* marked words in the message of a thrown error

\* ------------------------------------------------------- optional values
\* A field of type T | undefined is a set holding at most one value.
Undefined == {}
Some(v) == {v}
Val(opt) == CHOOSE v \in opt : TRUE
\* JavaScript truthiness of string | undefined: undefined and '' are falsy.
Truthy(opt) == opt # Undefined /\ Val(opt) # ""

Max(a, b) == IF a >= b THEN a ELSE b
Min(a, b) == IF a <= b THEN a ELSE b

\* ------------------------------------------------------------ input sets
ThemeKey == {"horror", "scifi"}
TextSpeed == {"normal", "fast"}
Commands == {"look", " Help "}
Items == {"torch"}

GameStateUpdates(changes, items) ==
  [health_change : {Undefined} \cup {Some(n) : n \in changes},
   inventory_add : {Undefined} \cup {Some(i) : i \in items},
   inventory_remove : {Undefined} \cup {Some(i) : i \in items}]

\* deltas the generator returns in the orchestrator specification: those
\* with at most one field
Updates ==
  {u \in GameStateUpdates({-60, 70}, Items) :
     Cardinality({f \in {"health_change", "inventory_add", "inventory_remove"} :
                    u[f] # Undefined}) <= 1}

\* String.prototype.toUpperCase on the item names and roles used
ToUpperCase(str) ==
  CASE str = "torch" -> "TORCH"
    [] str = "key" -> "KEY"
    [] str = "user" -> "USER"
    [] str = "assistant" -> "ASSISTANT"
    [] OTHER -> str

\* String.prototype.trim().toLowerCase() on the commands used
NormalizedCommand(command) ==
  CASE command = " Help " -> "help"
    [] command = "INSTRUCTIONS" -> "instructions"
    [] OTHER -> command

ASCII_ART(cue) ==
  CASE cue = "none" -> ""
    [] cue = "door" -> "<door art>"
    [] OTHER -> "<art>"

getASCIIArt(cue) == ASCII_ART(cue)

THEMES(theme) == "prompt:" \o theme
THEME_CONFIG(theme) ==
  [openingLine |-> "opening:" \o theme, helpMessage |-> "help:" \o theme]

\* ------------------------------------------------------------- variables
VARIABLES
  initializationSession,  \* module-level session counter
  health, inventory, isGameOver, history, isProcessing, isTyping,
  narrativeEntries, isMuted, currentTheme, textSpeed,   \* the store
  calls,          \* operations that passed their guard, in start order
  soundsPlayed,   \* cues handed to SoundManager.play, in order
  lastResolved,   \* auxiliary: the round-trip that resolved last, and how
  lastUpdate,     \* argument of the latest direct applyStateUpdate call
  typewriter,     \* one controller made by createTypewriter, and its timers
  validation,     \* an object handed to StructuredResponseSchema, and the result
  context,        \* arguments handed to buildContext, and the result
  sanitized,      \* what generateObject did for generateNarrative, and the result
  narrativeLog    \* the NarrativeLog component: its state, ref and effect

\* the library state the store's operations never touch
libVars == <<typewriter, validation, context, sanitized, narrativeLog>>

vars == <<initializationSession, health, inventory, isGameOver, history,
          isProcessing, isTyping, narrativeEntries, isMuted, currentTheme,
          textSpeed, calls, soundsPlayed, lastResolved, lastUpdate, libVars>>

INITIAL_STATE ==
  [health |-> 100, inventory |-> <<>>, isGameOver |-> FALSE, history |-> <<>>,
   isProcessing |-> FALSE, isTyping |-> FALSE, narrativeEntries |-> <<>>,
   isMuted |-> FALSE, currentTheme |-> "horror", textSpeed |-> "normal"]

\* get(): the store as one record.  rt is auxiliary: the number of the
\* operation whose code is running, stamped on the entries it appends (the
\* source stamps a random id and the time instead).  soundsPlayed rides along
\* so that a handler's calls to SoundManager.play are part of its result.
State(rt) ==
  [health |-> health, inventory |-> inventory, isGameOver |-> isGameOver,
   history |-> history, isProcessing |-> isProcessing, isTyping |-> isTyping,
   narrativeEntries |-> narrativeEntries, isMuted |-> isMuted,
   currentTheme |-> currentTheme, textSpeed |-> textSpeed,
   soundsPlayed |-> soundsPlayed, rt |-> rt]

\* set(): the record written back to the store
Set(s) ==
  /\ health' = s.health
  /\ inventory' = s.inventory
  /\ isGameOver' = s.isGameOver
  /\ history' = s.history
  /\ isProcessing' = s.isProcessing
  /\ isTyping' = s.isTyping
  /\ narrativeEntries' = s.narrativeEntries
  /\ isMuted' = s.isMuted
  /\ currentTheme' = s.currentTheme
  /\ textSpeed' = s.textSpeed
  /\ soundsPlayed' = s.soundsPlayed

InitStore ==
  /\ initializationSession = 0
  /\ health = INITIAL_STATE.health
  /\ inventory = INITIAL_STATE.inventory
  /\ isGameOver = INITIAL_STATE.isGameOver
  /\ history = INITIAL_STATE.history
  /\ isProcessing = INITIAL_STATE.isProcessing
  /\ isTyping = INITIAL_STATE.isTyping
  /\ narrativeEntries = INITIAL_STATE.narrativeEntries
  /\ isMuted = INITIAL_STATE.isMuted
  /\ currentTheme = INITIAL_STATE.currentTheme
  /\ textSpeed = INITIAL_STATE.textSpeed
  /\ calls = <<>>
  /\ soundsPlayed = <<>>
  /\ lastResolved = Undefined
  /\ lastUpdate = Undefined

\* the store as constructed; no controller, validation or context yet
Init ==
  /\ InitStore
  /\ sanitized = Undefined
  /\ narrativeLog = Undefined
  /\ typewriter = Undefined
  /\ validation = Undefined
  /\ context = Undefined

\* --------------------------------------------------------- store actions
toggleMute ==
  /\ isMuted' = ~isMuted
  /\ UNCHANGED <<initializationSession, health, inventory, isGameOver, history,
                 isProcessing, isTyping, narrativeEntries, currentTheme,
                 textSpeed, calls, soundsPlayed, lastResolved, lastUpdate>>
  /\ UNCHANGED libVars

setTextSpeed(speed) ==
  /\ speed # textSpeed
  /\ textSpeed' = speed
  /\ UNCHANGED <<initializationSession, health, inventory, isGameOver, history,
                 isProcessing, isTyping, narrativeEntries, currentTheme,
                 isMuted, calls, soundsPlayed, lastResolved, lastUpdate>>
  /\ UNCHANGED libVars

\* variant: the new entry is put at the head of the log
addNarrativeEntry_prepend(s, entry) ==
  [s EXCEPT !.narrativeEntries =
              <<[type |-> entry.type, content |-> entry.content,
                 rt |-> s.rt]>> \o @,
            !.isTyping = (entry.type = "narrator" \/ entry.type = "ascii")]

addNarrativeEntry(s, entry) ==
  [s EXCEPT !.narrativeEntries =
              Append(@, [type |-> entry.type, content |-> entry.content,
                         rt |-> s.rt]),
            !.isTyping = (entry.type = "narrator" \/ entry.type = "ascii")]

setTypingComplete ==
  /\ isTyping
  /\ isTyping' = FALSE
  /\ UNCHANGED <<initializationSession, health, inventory, isGameOver, history,
                 isProcessing, narrativeEntries, isMuted, currentTheme,
                 textSpeed, calls, soundsPlayed, lastResolved, lastUpdate>>
  /\ UNCHANGED libVars

Includes(seq, x) == \E i \in 1..Len(seq) : seq[i] = x
Filter(seq, x) == SelectSeq(seq, LAMBDA item : item # x)

\* variants with a plausible slip, used to show what each property detects
ClampHealth_noFloor(h) == Min(100, h)
ClampHealth_noCeiling(h) == Max(0, h)
GameOverAt_strict(newHealth) == newHealth < 0
PushItem_unchecked(inv, item) == Append(inv, item)

ClampHealth(h) == Max(0, Min(100, h))
GameOverAt(newHealth) == newHealth <= 0
PushItem(inv, item) == IF ~Includes(inv, item) THEN Append(inv, item) ELSE inv

\* variant: the item is removed before the other is added
applyStateUpdate_removeFirst(s, update) ==
  LET itemAdded == update.inventory_add
      itemRemoved == update.inventory_remove
      newHealth == IF update.health_change # Undefined
                     THEN ClampHealth(s.health + Val(update.health_change))
                     ELSE s.health
      filtered == IF Truthy(itemRemoved) THEN Filter(s.inventory, Val(itemRemoved))
                  ELSE s.inventory
      newInventory == IF Truthy(itemAdded) THEN PushItem(filtered, Val(itemAdded))
                      ELSE filtered
      s1 == [s EXCEPT !.health = newHealth, !.inventory = newInventory,
                      !.isGameOver = GameOverAt(newHealth)]
      s2 == IF Truthy(itemAdded)
              THEN addNarrativeEntry(s1, [type |-> "system",
                     content |-> "> ACQUIRED: " \o ToUpperCase(Val(itemAdded))])
              ELSE s1
  IN IF Truthy(itemRemoved)
       THEN addNarrativeEntry(s2, [type |-> "system",
              content |-> "> USED: " \o ToUpperCase(Val(itemRemoved))])
       ELSE s2

applyStateUpdate(s, update) ==
  LET itemAdded == update.inventory_add
      itemRemoved == update.inventory_remove
      newHealth == IF update.health_change # Undefined
                     THEN ClampHealth(s.health + Val(update.health_change))
                     ELSE s.health
      pushed == IF Truthy(itemAdded) THEN PushItem(s.inventory, Val(itemAdded))
                ELSE s.inventory
      newInventory == IF Truthy(itemRemoved) THEN Filter(pushed, Val(itemRemoved))
                      ELSE pushed
      s1 == [s EXCEPT !.health = newHealth, !.inventory = newInventory,
                      !.isGameOver = GameOverAt(newHealth)]
      s2 == IF Truthy(itemAdded)
              THEN addNarrativeEntry(s1, [type |-> "system",
                     content |-> "> ACQUIRED: " \o ToUpperCase(Val(itemAdded))])
              ELSE s1
  IN IF Truthy(itemRemoved)
       THEN addNarrativeEntry(s2, [type |-> "system",
              content |-> "> USED: " \o ToUpperCase(Val(itemRemoved))])
       ELSE s2

\* ------------------------------------------------- the narrative generator
\* generateNarrative resolves to { success, data?, error?, errorType? }; the
\* await in the store may also reject (threw).
\* Every delta with a plain response, and one response with art and sound.
StructuredResponses ==
  [narrative : {"n1"}, visual_cue : {"none"}, sound_cue : {"none"},
   game_state_update : Updates]
  \cup
  [narrative : {"n2"}, visual_cue : {"door"}, sound_cue : {"wind"},
   game_state_update : GameStateUpdates({}, {})]

\* the (message, type) pairs sanitizeErrorMessage can return
SanitizedErrors ==
  {[message |-> "Authentication failed with the void.", type |-> "auth"],
   [message |-> "The void is overwhelmed. Please wait a moment.", type |-> "rate_limit"],
   [message |-> "Connection to the void was lost.", type |-> "network"],
   [message |-> "The void spoke in tongues we cannot understand.", type |-> "validation"],
   [message |-> "An unknown disturbance ripples through the void.", type |-> "unknown"]}

\* failure kinds the orchestrator specification draws from: one with a
\* message of its own in submitCommand, one without
FailureKinds == {"network", "validation"}

Outcomes ==
  {[threw |-> FALSE, success |-> TRUE, data |-> Some(d), error |-> Undefined,
    errorType |-> Undefined] : d \in StructuredResponses}
  \cup
  {[threw |-> FALSE, success |-> FALSE, data |-> Undefined,
    error |-> Some(e.message), errorType |-> Some(e.type)] :
      e \in {x \in SanitizedErrors : x.type \in FailureKinds}}
  \cup
  {[threw |-> TRUE, success |-> FALSE, data |-> Undefined, error |-> Undefined,
    errorType |-> Undefined]}

OutcomeKind(r) ==
  IF r.threw THEN "thrown"
  ELSE IF r.success /\ r.data # Undefined THEN "success" ELSE "failure"

\* --------------------------------------------------------- round-trips
\* calls[i] is the i-th operation that passed its guard.  While it awaits the
\* generator (status "awaiting") the record holds what its closure holds:
\* currentSession, the value of initializationSession when it started
\* (initializeGame keeps it in a local; submitCommand never reads the counter,
\* the field is auxiliary there), the command, and the input handed to the
\* generator.  Once it is over only op and status "done" remain.
Awaiting(i) == i \in 1..Len(calls) /\ calls[i].status = "awaiting"

NoInput == [command |-> "", history |-> <<>>,
            playerState |-> [health |-> 0, inventory |-> <<>>],
            systemPrompt |-> ""]

NewCall(op, command, input) ==
  [op |-> op, currentSession |-> initializationSession', command |-> command,
   input |-> input, status |-> "awaiting"]

Resolved(op) ==
  [op |-> op, currentSession |-> -1, command |-> "", input |-> NoInput,
   status |-> "done"]

\* what lastResolved records of the resolution of calls[i] with outcome r
Resolution(i, r) ==
  [id |-> i, op |-> calls[i].op, kind |-> OutcomeKind(r),
   currentSession |-> calls[i].currentSession,
   resolvedIn |-> initializationSession]

\* variant: an art entry for every response, whatever its cue
ApplyResponse_artUnchecked(s, data, userContent) ==
  LET s1 == applyStateUpdate(s, data.game_state_update)
      s2 == addNarrativeEntry(s1, [type |-> "narrator", content |-> data.narrative])
      art == getASCIIArt(data.visual_cue)
      s3 == addNarrativeEntry(s2, [type |-> "ascii", content |-> art])
      s4 == IF data.sound_cue # "none"
              THEN [s3 EXCEPT !.soundsPlayed = Append(@, data.sound_cue)]
              ELSE s3
  IN [s4 EXCEPT !.history = @ \o <<[role |-> "user", content |-> userContent],
                                   [role |-> "assistant", content |-> data.narrative]>>]

\* variant: the delta (and its notifications) applied after the narrator entry
ApplyResponse_narratorFirst(s, data, userContent) ==
  LET s1 == addNarrativeEntry(s, [type |-> "narrator", content |-> data.narrative])
      s2 == applyStateUpdate(s1, data.game_state_update)
      art == getASCIIArt(data.visual_cue)
      s3 == IF data.visual_cue # "none" /\ art # ""
              THEN addNarrativeEntry(s2, [type |-> "ascii", content |-> art])
              ELSE s2
      s4 == IF data.sound_cue # "none"
              THEN [s3 EXCEPT !.soundsPlayed = Append(@, data.sound_cue)]
              ELSE s3
  IN [s4 EXCEPT !.history = @ \o <<[role |-> "user", content |-> userContent],
                                   [role |-> "assistant", content |-> data.narrative]>>]

\* variant: only the assistant turn is committed to the history
ApplyResponse_assistantOnly(s, data, userContent) ==
  LET s1 == applyStateUpdate(s, data.game_state_update)
      s2 == addNarrativeEntry(s1, [type |-> "narrator", content |-> data.narrative])
      art == getASCIIArt(data.visual_cue)
      s3 == IF data.visual_cue # "none" /\ art # ""
              THEN addNarrativeEntry(s2, [type |-> "ascii", content |-> art])
              ELSE s2
      s4 == IF data.sound_cue # "none"
              THEN [s3 EXCEPT !.soundsPlayed = Append(@, data.sound_cue)]
              ELSE s3
  IN [s4 EXCEPT !.history = @ \o <<[role |-> "assistant", content |-> data.narrative]>>]

\* the success branch shared by initializeGame and submitCommand
ApplyResponse(s, data, userContent) ==
  LET s1 == applyStateUpdate(s, data.game_state_update)
      s2 == addNarrativeEntry(s1, [type |-> "narrator", content |-> data.narrative])
      art == getASCIIArt(data.visual_cue)
      s3 == IF data.visual_cue # "none" /\ art # ""
              THEN addNarrativeEntry(s2, [type |-> "ascii", content |-> art])
              ELSE s2
      s4 == IF data.sound_cue # "none"
              THEN [s3 EXCEPT !.soundsPlayed = Append(@, data.sound_cue)]
              ELSE s3
  IN [s4 EXCEPT !.history = @ \o <<[role |-> "user", content |-> userContent],
                                   [role |-> "assistant", content |-> data.narrative]>>]

\* variant: the guard looks at the history only
InitializeGameGuard_historyOnly(s) == Len(s.history) = 0

\* initializeGame up to its await, run on store s: <<store, calls>> after it
InitializeGameGuard(s) == Len(s.history) = 0 /\ ~s.isProcessing

StartInitializeGame(s, cs) ==
  IF InitializeGameGuard(s)
    THEN <<[s EXCEPT !.isProcessing = TRUE],
           Append(cs, NewCall("initializeGame", "__START_GAME__",
                    [command |-> THEME_CONFIG(s.currentTheme).openingLine,
                     history |-> <<>>,
                     playerState |-> [health |-> 100, inventory |-> <<>>],
                     systemPrompt |-> THEMES(s.currentTheme)]))>>
    ELSE <<s, cs>>

initializeGame ==
  /\ Len(calls) < MaxOps
  /\ InitializeGameGuard(State(0))
  /\ UNCHANGED <<initializationSession, lastResolved, lastUpdate>>
  /\ UNCHANGED libVars
  /\ LET r == StartInitializeGame(State(0), calls)
     IN Set(r[1]) /\ calls' = r[2]

\* variants: the counter starts over; the reset forgets the preferences; the
\* reset keeps the theme it found
NextSession_restart(n) == 1
ResetStore_defaults(s, theme, muted, speed) ==
  [s EXCEPT !.health = INITIAL_STATE.health,
            !.inventory = INITIAL_STATE.inventory,
            !.isGameOver = INITIAL_STATE.isGameOver,
            !.history = INITIAL_STATE.history,
            !.isProcessing = INITIAL_STATE.isProcessing,
            !.isTyping = INITIAL_STATE.isTyping,
            !.narrativeEntries = INITIAL_STATE.narrativeEntries,
            !.isMuted = INITIAL_STATE.isMuted,
            !.currentTheme = theme,
            !.textSpeed = INITIAL_STATE.textSpeed]
ResetStore_sameTheme(s, theme, muted, speed) ==
  [s EXCEPT !.health = INITIAL_STATE.health,
            !.inventory = INITIAL_STATE.inventory,
            !.isGameOver = INITIAL_STATE.isGameOver,
            !.history = INITIAL_STATE.history,
            !.isProcessing = INITIAL_STATE.isProcessing,
            !.isTyping = INITIAL_STATE.isTyping,
            !.narrativeEntries = INITIAL_STATE.narrativeEntries,
            !.isMuted = muted,
            !.textSpeed = speed]

\* initializationSession++
NextSession(n) == n + 1

\* variant: the reset keeps the log
ResetStore_keepsLog(s, theme, muted, speed) ==
  [s EXCEPT !.health = INITIAL_STATE.health,
            !.inventory = INITIAL_STATE.inventory,
            !.isGameOver = INITIAL_STATE.isGameOver,
            !.history = INITIAL_STATE.history,
            !.isProcessing = INITIAL_STATE.isProcessing,
            !.isTyping = INITIAL_STATE.isTyping,
            !.isMuted = muted,
            !.currentTheme = theme,
            !.textSpeed = speed]

\* variant: the reset leaves isProcessing as it found it
ResetStore_keepsProcessing(s, theme, muted, speed) ==
  [s EXCEPT !.health = INITIAL_STATE.health,
            !.inventory = INITIAL_STATE.inventory,
            !.isGameOver = INITIAL_STATE.isGameOver,
            !.history = INITIAL_STATE.history,
            !.isTyping = INITIAL_STATE.isTyping,
            !.narrativeEntries = INITIAL_STATE.narrativeEntries,
            !.isMuted = muted,
            !.currentTheme = theme,
            !.textSpeed = speed]

\* set({ ...INITIAL_STATE, currentTheme, isMuted, textSpeed })
ResetStore(s, theme, muted, speed) ==
  [s EXCEPT !.health = INITIAL_STATE.health,
            !.inventory = INITIAL_STATE.inventory,
            !.isGameOver = INITIAL_STATE.isGameOver,
            !.history = INITIAL_STATE.history,
            !.isProcessing = INITIAL_STATE.isProcessing,
            !.isTyping = INITIAL_STATE.isTyping,
            !.narrativeEntries = INITIAL_STATE.narrativeEntries,
            !.isMuted = muted,
            !.currentTheme = theme,
            !.textSpeed = speed]

resetGame ==
  /\ initializationSession < MaxSession
  /\ Len(calls) < MaxOps
  /\ initializationSession' = NextSession(initializationSession)
  /\ UNCHANGED <<lastResolved, lastUpdate>>
  /\ UNCHANGED libVars
  /\ LET s == ResetStore(State(0), currentTheme, isMuted, textSpeed)
         r == StartInitializeGame(s, calls)
     IN Set(r[1]) /\ calls' = r[2]

setTheme(theme) ==
  /\ initializationSession < MaxSession
  /\ Len(calls) < MaxOps
  /\ initializationSession' = NextSession(initializationSession)
  /\ UNCHANGED <<lastResolved, lastUpdate>>
  /\ UNCHANGED libVars
  /\ LET s == ResetStore(State(0), theme, isMuted, textSpeed)
         r == StartInitializeGame(s, calls)
     IN Set(r[1]) /\ calls' = r[2]

\* variant: a failure leaves no trace in the log
ReportFailure_silent(s, content) == s

\* the system entry every failure path appends
ReportFailure(s, content) ==
  addNarrativeEntry(s, [type |-> "system", content |-> content])

\* variant: the session is never compared
SessionChanged_never(call) == FALSE

\* the session checks of initializeGame (after the await, in catch, in finally)
SessionChanged(call) == call.currentSession # initializationSession

ResolveInitializeGame(i, r) ==
  /\ Awaiting(i)
  /\ calls[i].op = "initializeGame"
  /\ UNCHANGED <<initializationSession, lastUpdate>>
  /\ UNCHANGED libVars
  /\ calls' = [calls EXCEPT ![i] = Resolved(calls[i].op)]
  /\ lastResolved' = Some(Resolution(i, r))
  /\ LET s == State(i)
         s1 == IF r.threw
                 THEN IF SessionChanged(calls[i]) THEN s
                      ELSE ReportFailure(s,
                             "CONNECTION TO THE VOID LOST. Please refresh to try again.")
               ELSE IF SessionChanged(calls[i]) THEN s
               ELSE IF r.success /\ r.data # Undefined
                 THEN ApplyResponse(s, Val(r.data), "__START_GAME__")
               ELSE ReportFailure(s,
                      "CONNECTION TO THE VOID LOST: " \o
                        (IF Truthy(r.error) THEN Val(r.error) ELSE "Unknown error"))
     IN Set(IF ~SessionChanged(calls[i])
              THEN [s1 EXCEPT !.isProcessing = FALSE]
              ELSE s1)

\* variant: the raw text is compared
IsLocalCommand_raw(command) == command = "help" \/ command = "instructions"

IsLocalCommand(command) ==
  NormalizedCommand(command) = "help" \/ NormalizedCommand(command) = "instructions"

\* variant: the guard looks at isProcessing only
SubmitCommandGuard_processingOnly(s) == ~s.isProcessing

SubmitCommandGuard(s) == ~(s.isProcessing \/ s.isGameOver)

\* submitCommand up to its await (or to its return, for a local command), run
\* on store state: <<store, calls>> after it
StartSubmitCommand(state, cs, command) ==
  LET s1 == addNarrativeEntry(state, [type |-> "player", content |-> command])
  IN IF ~SubmitCommandGuard(state) THEN <<state, cs>>
     ELSE IF IsLocalCommand(command)
       THEN <<addNarrativeEntry(s1, [type |-> "system",
                content |-> THEME_CONFIG(state.currentTheme).helpMessage]),
              Append(cs, Resolved("submitCommand"))>>
     ELSE <<[s1 EXCEPT !.isProcessing = TRUE],
            Append(cs, NewCall("submitCommand", command,
                         [command |-> command, history |-> state.history,
                          playerState |-> [health |-> state.health,
                                           inventory |-> state.inventory],
                          systemPrompt |-> THEMES(state.currentTheme)]))>>

submitCommand(command) ==
  /\ Len(calls) < MaxOps
  /\ SubmitCommandGuard(State(Len(calls) + 1))
  /\ initializationSession' = initializationSession
  /\ UNCHANGED <<lastResolved, lastUpdate>>
  /\ UNCHANGED libVars
  /\ LET r == StartSubmitCommand(State(Len(calls) + 1), calls, command)
     IN Set(r[1]) /\ calls' = r[2]

ErrorMessage(r) ==
  IF r.errorType = Some("rate_limit")
    THEN "THE VOID IS OVERWHELMED. Wait a moment and try again."
  ELSE IF r.errorType = Some("auth")
    THEN "AUTHENTICATION FAILED. The void rejects your presence."
  ELSE IF r.errorType = Some("network")
    THEN "CONNECTION TO THE VOID LOST. Check your connection and try again."
  ELSE "THE VOID TREMBLES: " \o
         (IF Truthy(r.error) THEN Val(r.error) ELSE "Unknown disturbance")

ResolveSubmitCommand(i, r) ==
  /\ Awaiting(i)
  /\ calls[i].op = "submitCommand"
  /\ UNCHANGED <<initializationSession, lastUpdate>>
  /\ UNCHANGED libVars
  /\ calls' = [calls EXCEPT ![i] = Resolved(calls[i].op)]
  /\ lastResolved' = Some(Resolution(i, r))
  /\ LET s == State(i)
         s1 == IF r.threw
                 THEN ReportFailure(s, "CONNECTION TO THE VOID LOST. Try again.")
               ELSE IF r.success /\ r.data # Undefined
                 THEN ApplyResponse(s, Val(r.data), calls[i].command)
               ELSE ReportFailure(s, ErrorMessage(r))
     IN Set([s1 EXCEPT !.isProcessing = FALSE])

\* ------------------------------------------------------- specification
Next ==
  \/ initializeGame
  \/ resetGame
  \/ \E theme \in ThemeKey : setTheme(theme)
  \/ \E command \in Commands : submitCommand(command)
  \/ \E i \in 1..MaxOps : \E r \in Outcomes : ResolveInitializeGame(i, r)
  \/ \E i \in 1..MaxOps : \E r \in Outcomes : ResolveSubmitCommand(i, r)

Spec == Init /\ [][Next]_vars

\* ------------------------------------ the orchestrator under every failure
\* The same operations with the generator failing in each of the five ways
\* sanitizeErrorMessage names or rejecting, and one success that changes
\* health and commits a turn pair so that a failure has something to keep.
FailureOutcomes ==
  {[threw |-> FALSE, success |-> FALSE, data |-> Undefined,
    error |-> Some(e.message), errorType |-> Some(e.type)] : e \in SanitizedErrors}
  \cup
  {[threw |-> TRUE, success |-> FALSE, data |-> Undefined, error |-> Undefined,
    errorType |-> Undefined]}
  \cup
  {[threw |-> FALSE, success |-> TRUE,
    data |-> Some([narrative |-> "n1", visual_cue |-> "none", sound_cue |-> "none",
                   game_state_update |->
                     [health_change |-> Some(-60), inventory_add |-> Some("torch"),
                      inventory_remove |-> Undefined]]),
    error |-> Undefined, errorType |-> Undefined]}

NextFailures ==
  \/ initializeGame
  \/ resetGame
  \/ \E theme \in ThemeKey : setTheme(theme)
  \/ submitCommand("look")
  \/ \E i \in 1..MaxOps : \E r \in FailureOutcomes : ResolveInitializeGame(i, r)
  \/ \E i \in 1..MaxOps : \E r \in FailureOutcomes : ResolveSubmitCommand(i, r)

SpecFailures == Init /\ [][NextFailures]_vars

\* ------------------------------- the orchestrator with the preferences
\* Every operation of the store, the preference toggles included, with the
\* generator answering in two ways: the success of FailureOutcomes or a
\* rejection.
FewOutcomes == {r \in FailureOutcomes : r.success \/ r.threw}

NextPreferences ==
  \/ toggleMute
  \/ \E speed \in TextSpeed : setTextSpeed(speed)
  \/ setTypingComplete
  \/ initializeGame
  \/ resetGame
  \/ \E theme \in ThemeKey : setTheme(theme)
  \/ \E command \in {"look", " Help ", "INSTRUCTIONS"} : submitCommand(command)
  \/ \E i \in 1..MaxOps : \E r \in FewOutcomes : ResolveInitializeGame(i, r)
  \/ \E i \in 1..MaxOps : \E r \in FewOutcomes : ResolveSubmitCommand(i, r)

SpecPreferences == Init /\ [][NextPreferences]_vars

\* ------------------------------------- initializations that all succeed
\* initializeGame, resetGame and setTheme alone, every generator call
\* resolving with a success.
SuccessOutcomes == {r \in Outcomes : OutcomeKind(r) = "success"}

NextInitializations ==
  \/ initializeGame
  \/ resetGame
  \/ \E theme \in ThemeKey : setTheme(theme)
  \/ \E i \in 1..MaxOps : \E r \in SuccessOutcomes : ResolveInitializeGame(i, r)

SpecInitializations == Init /\ [][NextInitializations]_vars

\* ---------------------------------- the orchestrator, every call resolving
\* The operations of the orchestrator with the generator answering in two
\* ways, and every call resolving in the end: the promise of an awaited
\* generateNarrative call is settled by the runtime.
NextProgress ==
  \/ initializeGame
  \/ resetGame
  \/ \E theme \in ThemeKey : setTheme(theme)
  \/ \E command \in Commands : submitCommand(command)
  \/ \E i \in 1..MaxOps : \E r \in FewOutcomes : ResolveInitializeGame(i, r)
  \/ \E i \in 1..MaxOps : \E r \in FewOutcomes : ResolveSubmitCommand(i, r)

SpecProgress ==
  /\ Init
  /\ [][NextProgress]_vars
  /\ \A i \in 1..MaxOps :
       WF_vars(\E r \in FewOutcomes :
                 ResolveInitializeGame(i, r) \/ ResolveSubmitCommand(i, r))

\* ------------------------------------------- the applicator on its own
\* applyStateUpdate called directly on the store, as its unit tests do, with
\* deltas over a wider range: health changes in steps of ten that overshoot
\* both ends from any health, two item names and the empty string.
HealthChanges == {10 * k : k \in -MaxChange..MaxChange}
ApplyItems == {"torch", "key", ""}
ApplyUpdates ==
  GameStateUpdates(HealthChanges, {}) \cup GameStateUpdates({-10}, ApplyItems)

NotificationCount(update) ==
  (IF Truthy(update.inventory_add) THEN 1 ELSE 0)
  + (IF Truthy(update.inventory_remove) THEN 1 ELSE 0)

ApplyStateUpdate(update) ==
  /\ Len(narrativeEntries) + NotificationCount(update) <= MaxLog
  /\ Set(applyStateUpdate(State(0), update))
  /\ lastUpdate' = Some(update)
  /\ UNCHANGED <<initializationSession, calls, lastResolved>>
  /\ UNCHANGED libVars

NextApply == \E update \in ApplyUpdates : ApplyStateUpdate(update)

SpecApply == Init /\ [][NextApply]_vars

\* ------------------------------------------------ the typewriter controller
\* createTypewriter (src/src/lib/schema.ts).  A text is a sequence of
\* characters.  The record holds the closure's variables under their names;
\* timers is the set of timeouts that are scheduled and neither fired nor
\* cleared (timerId 0 is null); updates lists the texts handed to onUpdate,
\* completions counts the calls of onComplete, calls counts the method calls
\* and last names the latest of them ("tick" when a timeout fired); stopped
\* tells that stop() was called and start() has not been called since.
Texts == UNION {[1..n -> {"a", "b"}] : n \in 0..MaxText}

\* String.prototype.slice(0, end) for end >= 0
Slice(text, end) == SubSeq(text, 1, Min(end, Len(text)))

createTypewriter(fullText) ==
  [fullText |-> fullText, currentIndex |-> 0, timerId |-> 0, running |-> FALSE,
   complete |-> FALSE, paused |-> FALSE,
   timers |-> {}, updates |-> <<>>, completions |-> 0, calls |-> 0,
   last |-> "create", stopped |-> FALSE]

\* timerId = setTimeout(tick, speed): an id no live timeout has
setTimeout(c) ==
  LET id == CHOOSE n \in 1..(Cardinality(c.timers) + 2) :
              /\ n \notin c.timers \cup {c.timerId}
              /\ \A m \in 1..(n - 1) : m \in c.timers \cup {c.timerId}
  IN [c EXCEPT !.timers = @ \cup {id}, !.timerId = id]

\* if (timerId) { clearTimeout(timerId); timerId = null }
clearTimer(c) ==
  IF c.timerId # 0
    THEN [c EXCEPT !.timers = @ \ {c.timerId}, !.timerId = 0]
    ELSE c

\* variant: the last character is never reached
tick_stopsShort(c) ==
  IF ~c.running \/ c.paused THEN c
  ELSE IF c.currentIndex < Len(c.fullText)
    THEN LET c1 == [c EXCEPT !.updates = Append(@, Slice(c.fullText, c.currentIndex)),
                             !.currentIndex = @ + 1]
         IN IF c1.currentIndex < Len(c1.fullText)
              THEN setTimeout(c1)
              ELSE [c1 EXCEPT !.complete = TRUE, !.running = FALSE,
                              !.completions = @ + 1]
  ELSE c

tick(c) ==
  IF ~c.running \/ c.paused THEN c
  ELSE IF c.currentIndex <= Len(c.fullText)
    THEN LET c1 == [c EXCEPT !.updates = Append(@, Slice(c.fullText, c.currentIndex)),
                             !.currentIndex = @ + 1]
         IN IF c1.currentIndex <= Len(c1.fullText)
              THEN setTimeout(c1)
              ELSE [c1 EXCEPT !.complete = TRUE, !.running = FALSE,
                              !.completions = @ + 1]
  ELSE c

\* variant: start looks at running only
start_ignoresComplete(c) ==
  IF c.running THEN c
  ELSE tick([c EXCEPT !.running = TRUE, !.paused = FALSE])

start(c) ==
  IF c.running \/ c.complete THEN c
  ELSE tick([c EXCEPT !.running = TRUE, !.paused = FALSE])

\* variants: skip leaves the timer; skip forgets its guard
skip_keepsTimer(c) ==
  IF c.complete THEN c
  ELSE [c EXCEPT !.currentIndex = Len(c.fullText),
                 !.updates = Append(@, c.fullText),
                 !.complete = TRUE, !.running = FALSE,
                 !.completions = @ + 1]
skip_unguarded(c) ==
  LET c1 == clearTimer(c)
  IN [c1 EXCEPT !.currentIndex = Len(c.fullText),
                !.updates = Append(@, c.fullText),
                !.complete = TRUE, !.running = FALSE,
                !.completions = @ + 1]

skip(c) ==
  IF c.complete THEN c
  ELSE LET c1 == clearTimer(c)
       IN [c1 EXCEPT !.currentIndex = Len(c.fullText),
                     !.updates = Append(@, c.fullText),
                     !.complete = TRUE, !.running = FALSE,
                     !.completions = @ + 1]

\* variant: pause leaves the timer
pause_keepsTimer(c) ==
  IF ~c.running \/ c.complete THEN c
  ELSE [c EXCEPT !.paused = TRUE]

pause(c) ==
  IF ~c.running \/ c.complete THEN c
  ELSE clearTimer([c EXCEPT !.paused = TRUE])

resume(c) ==
  IF ~c.paused \/ c.complete THEN c
  ELSE tick([c EXCEPT !.paused = FALSE])

\* variant: stop forgets the timeout without clearing it
stop_keepsTimer(c) ==
  [c EXCEPT !.timerId = 0, !.running = FALSE, !.paused = FALSE,
            !.currentIndex = 0, !.complete = FALSE]

\* variant: stop keeps the position
stop_keepsIndex(c) ==
  [clearTimer(c) EXCEPT !.running = FALSE, !.paused = FALSE, !.complete = FALSE]

stop(c) ==
  [clearTimer(c) EXCEPT !.running = FALSE, !.paused = FALSE,
                        !.currentIndex = 0, !.complete = FALSE]

isRunning(c) == c.running /\ ~c.paused
isComplete(c) == c.complete
getCurrentText(c) == Slice(c.fullText, c.currentIndex)

\* a method call on the controller
Called(c, method) ==
  [c EXCEPT !.calls = @ + 1, !.last = method,
            !.stopped = IF method = "stop" THEN TRUE
                        ELSE IF method = "start" THEN FALSE ELSE @]

Start ==
  /\ typewriter.calls < MaxCalls
  /\ typewriter' = Called(start(typewriter), "start")
  /\ UNCHANGED <<initializationSession, health, inventory, isGameOver, history,
                 isProcessing, isTyping, narrativeEntries, isMuted, currentTheme,
                 textSpeed, calls, soundsPlayed, lastResolved, lastUpdate,
                 validation, context, sanitized, narrativeLog>>

Skip ==
  /\ typewriter.calls < MaxCalls
  /\ typewriter' = Called(skip(typewriter), "skip")
  /\ UNCHANGED <<initializationSession, health, inventory, isGameOver, history,
                 isProcessing, isTyping, narrativeEntries, isMuted, currentTheme,
                 textSpeed, calls, soundsPlayed, lastResolved, lastUpdate,
                 validation, context, sanitized, narrativeLog>>

Pause ==
  /\ typewriter.calls < MaxCalls
  /\ typewriter' = Called(pause(typewriter), "pause")
  /\ UNCHANGED <<initializationSession, health, inventory, isGameOver, history,
                 isProcessing, isTyping, narrativeEntries, isMuted, currentTheme,
                 textSpeed, calls, soundsPlayed, lastResolved, lastUpdate,
                 validation, context, sanitized, narrativeLog>>

Resume ==
  /\ typewriter.calls < MaxCalls
  /\ typewriter' = Called(resume(typewriter), "resume")
  /\ UNCHANGED <<initializationSession, health, inventory, isGameOver, history,
                 isProcessing, isTyping, narrativeEntries, isMuted, currentTheme,
                 textSpeed, calls, soundsPlayed, lastResolved, lastUpdate,
                 validation, context, sanitized, narrativeLog>>

Stop ==
  /\ typewriter.calls < MaxCalls
  /\ typewriter' = Called(stop(typewriter), "stop")
  /\ UNCHANGED <<initializationSession, health, inventory, isGameOver, history,
                 isProcessing, isTyping, narrativeEntries, isMuted, currentTheme,
                 textSpeed, calls, soundsPlayed, lastResolved, lastUpdate,
                 validation, context, sanitized, narrativeLog>>

\* a scheduled timeout fires and runs tick
TimerFires(id) ==
  /\ id \in typewriter.timers
  /\ typewriter' = tick([typewriter EXCEPT !.timers = @ \ {id}, !.last = "tick"])
  /\ UNCHANGED <<initializationSession, health, inventory, isGameOver, history,
                 isProcessing, isTyping, narrativeEntries, isMuted, currentTheme,
                 textSpeed, calls, soundsPlayed, lastResolved, lastUpdate,
                 validation, context, sanitized, narrativeLog>>

InitTypewriter ==
  /\ InitStore
  /\ sanitized = Undefined
  /\ narrativeLog = Undefined
  /\ typewriter \in {createTypewriter(fullText) : fullText \in Texts}
  /\ validation = Undefined
  /\ context = Undefined

TimerIds == 1..(MaxCalls + 2)

NextTypewriter ==
  \/ Start
  \/ Skip
  \/ Pause
  \/ Resume
  \/ Stop
  \/ \E id \in TimerIds : TimerFires(id)

SpecTypewriter == InitTypewriter /\ [][NextTypewriter]_vars

\* a controller that is started and then left to its timers
NextTypewriterRun ==
  \/ typewriter.calls = 0 /\ Start
  \/ \E id \in TimerIds : TimerFires(id)

\* a scheduled timeout does fire
SpecTypewriterRun ==
  /\ InitTypewriter
  /\ [][NextTypewriterRun]_vars
  /\ WF_vars(\E id \in TimerIds : TimerFires(id))

\* ------------------------------------------- the structured response schema
\* StructuredResponseSchema (src/src/lib/schema.ts), the schema handed to
\* generateObject.  A JavaScript value is a record of its kind and, by kind,
\* its text (a string), its halves (a number, counted in halves: 3 is the
\* number 1.5) or v (an object: a function from the keys it has to their
\* values); null has none of them.  A parser returns the parsed value, or
\* Undefined when the value is rejected.
NoFields == [k \in {} |-> 0]
Str(text) == [kind |-> "string", text |-> text, halves |-> 0, v |-> NoFields]
Num(halves) == [kind |-> "number", text |-> "", halves |-> halves, v |-> NoFields]
Obj(fields) == [kind |-> "object", text |-> "", halves |-> 0, v |-> fields]
Null == [kind |-> "null", text |-> "", halves |-> 0, v |-> NoFields]

\* the object that has exactly the keys to which choices gives a value
MakeObject(choices) ==
  Obj([k \in {key \in DOMAIN choices : choices[key] # Undefined}
         |-> Val(choices[k])])

\* variant: a string that is not empty
ZString_nonEmpty(x) ==
  IF x.kind = "string" /\ x.text # "" THEN Some(x) ELSE Undefined

\* z.string()
ZString(x) == IF x.kind = "string" THEN Some(x) ELSE Undefined

\* z.number()
ZNumber(x) == IF x.kind = "number" THEN Some(x) ELSE Undefined

\* z.enum([...])
ZEnum(members, x) ==
  IF x.kind = "string" /\ x.text \in members THEN Some(x) ELSE Undefined

VisualCueEnum(x) ==
  ZEnum({"none", "skeleton", "door", "chest", "monster", "void"}, x)

SoundCueEnum(x) == ZEnum({"none", "wind", "scream", "drip", "combat"}, x)

\* z.object({...}) with three optional fields; keys it does not name are
\* dropped from the result
GameStateUpdateSchema(x) ==
  IF x.kind # "object" THEN Undefined
  ELSE LET keys == {"health_change", "inventory_add", "inventory_remove"}
                     \cap DOMAIN x.v
           parsed(k) == IF k = "health_change" THEN ZNumber(x.v[k])
                        ELSE ZString(x.v[k])
       IN IF \E k \in keys : parsed(k) = Undefined THEN Undefined
          ELSE Some(Obj([k \in keys |-> Val(parsed(k))]))

\* variant: any string passes for sound_cue
StructuredResponseSchema_anySound(x) ==
  IF x.kind # "object" THEN Undefined
  ELSE LET keys == {"narrative", "visual_cue", "game_state_update", "sound_cue"}
           parsed(k) == CASE k = "narrative" -> ZString(x.v[k])
                          [] k = "visual_cue" -> VisualCueEnum(x.v[k])
                          [] k = "game_state_update" -> GameStateUpdateSchema(x.v[k])
                          [] k = "sound_cue" -> ZString(x.v[k])
       IN IF ~(keys \subseteq DOMAIN x.v) THEN Undefined
          ELSE IF \E k \in keys : parsed(k) = Undefined THEN Undefined
          ELSE Some(Obj([k \in keys |-> Val(parsed(k))]))

\* z.object({...}) with four required fields
StructuredResponseSchema(x) ==
  IF x.kind # "object" THEN Undefined
  ELSE LET keys == {"narrative", "visual_cue", "game_state_update", "sound_cue"}
           parsed(k) == CASE k = "narrative" -> ZString(x.v[k])
                          [] k = "visual_cue" -> VisualCueEnum(x.v[k])
                          [] k = "game_state_update" -> GameStateUpdateSchema(x.v[k])
                          [] k = "sound_cue" -> SoundCueEnum(x.v[k])
       IN IF ~(keys \subseteq DOMAIN x.v) THEN Undefined
          ELSE IF \E k \in keys : parsed(k) = Undefined THEN Undefined
          ELSE Some(Obj([k \in keys |-> Val(parsed(k))]))

\* the values offered to the schema, field by field (Undefined: key absent)
RawNarratives == {Undefined, Some(Str("")), Some(Str("n1")), Some(Num(2))}
RawVisualCues ==
  {Undefined, Some(Str("dragon")), Some(Num(0))}
    \cup {Some(Str(c)) : c \in {"none", "skeleton", "door", "chest", "monster", "void"}}
RawSoundCues ==
  {Undefined, Some(Str("thunder")), Some(Null)}
    \cup {Some(Str(c)) : c \in {"none", "wind", "scream", "drip", "combat"}}
RawHealthChanges ==
  {Undefined, Some(Str("5"))} \cup {Some(Num(h)) : h \in (-MaxHalves)..MaxHalves}
RawItems == {Undefined, Some(Str("")), Some(Str("torch")), Some(Num(2))}
RawGameStateUpdates ==
  {Undefined, Some(Str("none"))}
    \cup {Some(MakeObject([health_change |-> h, inventory_add |-> a,
                            inventory_remove |-> r])) :
            h \in RawHealthChanges, a \in RawItems, r \in RawItems}
RawResponses ==
  {Null, Str("n1")}
    \cup {MakeObject([narrative |-> n, visual_cue |-> c, game_state_update |-> g,
                      sound_cue |-> sc, debug |-> d]) :
            n \in RawNarratives, c \in RawVisualCues, g \in RawGameStateUpdates,
            sc \in RawSoundCues, d \in {Undefined, Some(Str("x"))}}

\* StructuredResponseSchema.safeParse(input)
safeParse ==
  /\ ~validation.done
  /\ validation' = [validation EXCEPT !.done = TRUE,
                       !.result = StructuredResponseSchema(validation.input)]
  /\ UNCHANGED <<initializationSession, health, inventory, isGameOver, history,
                 isProcessing, isTyping, narrativeEntries, isMuted, currentTheme,
                 textSpeed, calls, soundsPlayed, lastResolved, lastUpdate,
                 typewriter, context, sanitized, narrativeLog>>

InitValidation ==
  /\ InitStore
  /\ sanitized = Undefined
  /\ narrativeLog = Undefined
  /\ typewriter = Undefined
  /\ context = Undefined
  /\ validation \in {[input |-> x, done |-> FALSE, result |-> Undefined] :
                       x \in RawResponses}

NextValidation == safeParse

SpecValidation == InitValidation /\ [][NextValidation]_vars

\* ------------------------------------------------------ the prompt context
\* buildContext (src/unnamed/part_004).  The string it returns is kept as the
\* sequence of its lines, a line as the sequence of the pieces the template
\* puts together (an empty line has no piece).

\* Array.prototype.slice(from) for from < 0
SliceFrom(seq, from) == SubSeq(seq, Max(1, Len(seq) + from + 1), Len(seq))

\* Array.prototype.join(separator), piece by piece
RECURSIVE Join(_, _)
Join(seq, separator) ==
  IF Len(seq) = 0 THEN <<>>
  ELSE IF Len(seq) = 1 THEN <<seq[1]>>
  ELSE <<seq[1], separator>> \o Join(Tail(seq), separator)

\* a template line without its empty pieces
Line(pieces) == SelectSeq(pieces, LAMBDA piece : piece # "")

\* variant: the first ten turns
buildContext_firstTen(hist, playerState) ==
  LET recentHistory == SubSeq(hist, 1, Min(10, Len(hist)))
      turns == [i \in 1..Len(recentHistory) |->
                  <<ToUpperCase(recentHistory[i].role), ": ",
                    recentHistory[i].content>>]
  IN <<  <<>>,
         <<"## CURRENT PLAYER STATE">>,
         Line(<<"- Health: ", ToString(playerState.health), "/100 ",
                IF playerState.health <= 30
                  THEN "(CRITICAL - describe their weakened state)" ELSE "">>),
         <<"- Inventory: ">> \o
           (IF Len(playerState.inventory) > 0
              THEN Join(playerState.inventory, ", ") ELSE <<"Empty">>),
         Line(<<IF playerState.health <= 0
                  THEN "- STATUS: DEAD - Describe their final moments poetically"
                  ELSE "">>),
         <<>>,
         <<"## RECENT HISTORY">> >>
       \o (IF Len(turns) = 0 THEN << <<>> >> ELSE turns)
       \o << <<>> >>

buildContext(hist, playerState) ==
  LET recentHistory == SliceFrom(hist, -10)
      turns == [i \in 1..Len(recentHistory) |->
                  <<ToUpperCase(recentHistory[i].role), ": ",
                    recentHistory[i].content>>]
  IN <<  <<>>,
         <<"## CURRENT PLAYER STATE">>,
         Line(<<"- Health: ", ToString(playerState.health), "/100 ",
                IF playerState.health <= 30
                  THEN "(CRITICAL - describe their weakened state)" ELSE "">>),
         <<"- Inventory: ">> \o
           (IF Len(playerState.inventory) > 0
              THEN Join(playerState.inventory, ", ") ELSE <<"Empty">>),
         Line(<<IF playerState.health <= 0
                  THEN "- STATUS: DEAD - Describe their final moments poetically"
                  ELSE "">>),
         <<>>,
         <<"## RECENT HISTORY">> >>
       \o (IF Len(turns) = 0 THEN << <<>> >> ELSE turns)
       \o << <<>> >>

\* histories of every length up to MaxTurns, user and assistant in turn, no
\* two turns with the same content
Histories ==
  {[k \in 1..n |-> [role |-> IF k % 2 = 1 THEN "user" ELSE "assistant",
                     content |-> "turn " \o ToString(k) \o "."]] : n \in 0..MaxTurns}

PlayerStates ==
  [health : {0, 30, 31, 100},
   inventory : {<<>>, <<"torch">>, <<"torch", "key">>}]

BuildContext ==
  /\ ~context.done
  /\ context' = [context EXCEPT !.done = TRUE,
                    !.result = buildContext(context.history, context.playerState)]
  /\ UNCHANGED <<initializationSession, health, inventory, isGameOver, history,
                 isProcessing, isTyping, narrativeEntries, isMuted, currentTheme,
                 textSpeed, calls, soundsPlayed, lastResolved, lastUpdate,
                 typewriter, validation, sanitized, narrativeLog>>

InitContext ==
  /\ InitStore
  /\ sanitized = Undefined
  /\ narrativeLog = Undefined
  /\ typewriter = Undefined
  /\ validation = Undefined
  /\ context \in {[history |-> h, playerState |-> ps, done |-> FALSE,
                    result |-> <<>>] : h \in Histories, ps \in PlayerStates}

NextContext == BuildContext

SpecContext == InitContext /\ [][NextContext]_vars

\* ------------------------------------------------ the generator's failures
\* generateNarrative and sanitizeErrorMessage
\* (src/src/app/actions/generate-narrative.ts).  The message of a thrown error
\* is kept as the set of the marked words it contains; includes(pattern) asks
\* whether the pattern is among them.
ErrorWords ==
  {"API key", "unauthorized", "401", "Rate Limit", "429", "quota", "TIMEOUT",
   "network", "fetch", "parse", "JSON", "schema", "zod", "sk-123", "ECONNRESET"}

\* String.prototype.toLowerCase on the words used
toLowerCase(word) ==
  CASE word = "API key" -> "api key"
    [] word = "Rate Limit" -> "rate limit"
    [] word = "TIMEOUT" -> "timeout"
    [] word = "JSON" -> "json"
    [] word = "ECONNRESET" -> "econnreset"
    [] OTHER -> word

\* msg.includes(a) || msg.includes(b) || ...
IncludesAny(msg, patterns) == msg \cap patterns # {}

\* variant: the patterns tried in another order
sanitizeErrorMessage_networkFirst(error) ==
  LET msg == {toLowerCase(word) : word \in error.message}
  IN IF error.isError /\ IncludesAny(msg, {"timeout", "network", "fetch"})
       THEN [message |-> "Connection to the void was lost.", type |-> "network"]
     ELSE IF error.isError /\ IncludesAny(msg, {"api key", "unauthorized", "401"})
       THEN [message |-> "Authentication failed with the void.", type |-> "auth"]
     ELSE IF error.isError /\ IncludesAny(msg, {"rate limit", "429", "quota"})
       THEN [message |-> "The void is overwhelmed. Please wait a moment.",
             type |-> "rate_limit"]
     ELSE IF error.isError /\ IncludesAny(msg, {"parse", "json", "schema", "zod"})
       THEN [message |-> "The void spoke in tongues we cannot understand.",
             type |-> "validation"]
     ELSE [message |-> "An unknown disturbance ripples through the void.",
           type |-> "unknown"]

sanitizeErrorMessage(error) ==
  LET msg == {toLowerCase(word) : word \in error.message}
  IN IF error.isError /\ IncludesAny(msg, {"api key", "unauthorized", "401"})
       THEN [message |-> "Authentication failed with the void.", type |-> "auth"]
     ELSE IF error.isError /\ IncludesAny(msg, {"rate limit", "429", "quota"})
       THEN [message |-> "The void is overwhelmed. Please wait a moment.",
             type |-> "rate_limit"]
     ELSE IF error.isError /\ IncludesAny(msg, {"timeout", "network", "fetch"})
       THEN [message |-> "Connection to the void was lost.", type |-> "network"]
     ELSE IF error.isError /\ IncludesAny(msg, {"parse", "json", "schema", "zod"})
       THEN [message |-> "The void spoke in tongues we cannot understand.",
             type |-> "validation"]
     ELSE [message |-> "An unknown disturbance ripples through the void.",
           type |-> "unknown"]

\* what generateObject does: it returns an object or throws a value, an Error
\* or not, whose text holds up to MaxWords of the words
ThrownValues ==
  [isError : BOOLEAN,
   message : {words \in SUBSET ErrorWords : Cardinality(words) <= MaxWords}]

GenerateObjectResults ==
  {[threw |-> FALSE, object |-> Some(d), error |-> Undefined] :
     d \in {x \in StructuredResponses : x.narrative = "n2"}}
  \cup {[threw |-> TRUE, object |-> Undefined, error |-> Some(e)] :
          e \in ThrownValues}

\* the try and the catch of generateNarrative, generateObject having done g
generateNarrativeResult(g) ==
  IF ~g.threw
    THEN [threw |-> FALSE, success |-> TRUE, data |-> g.object,
          error |-> Undefined, errorType |-> Undefined]
    ELSE LET r == sanitizeErrorMessage(Val(g.error))
         IN [threw |-> FALSE, success |-> FALSE, data |-> Undefined,
             error |-> Some(r.message), errorType |-> Some(r.type)]

generateNarrative ==
  /\ ~sanitized.done
  /\ sanitized' = [sanitized EXCEPT !.done = TRUE,
                      !.result = Some(generateNarrativeResult(sanitized.generated))]
  /\ UNCHANGED <<initializationSession, health, inventory, isGameOver, history,
                 isProcessing, isTyping, narrativeEntries, isMuted, currentTheme,
                 textSpeed, calls, soundsPlayed, lastResolved, lastUpdate,
                 typewriter, validation, context, narrativeLog>>

InitGenerator ==
  /\ InitStore
  /\ typewriter = Undefined /\ validation = Undefined /\ context = Undefined
  /\ narrativeLog = Undefined
  /\ sanitized \in {[generated |-> g, done |-> FALSE, result |-> Undefined] :
                      g \in GenerateObjectResults}

NextGenerator == generateNarrative

SpecGenerator == InitGenerator /\ [][NextGenerator]_vars

\* ------------------------------------------------ the NarrativeLog component
\* NarrativeLog (src/unnamed/part_006) over the store's narrativeEntries and
\* isTyping.  An entry's id is the stamp rt it got when it was appended.  The
\* record narrativeLog holds the component's state (displayedText,
\* completedEntries), the controller the typewriter effect made last, the
\* entry id its callbacks close over (animated), whether typewriterRef.current
\* points to it, and the dependencies of the effect's latest run.
LogTexts == {<<>>, <<"a">>, <<"a", "b">>}
EntryTypes == {"narrator", "ascii", "player", "system"}

\* variant: the latest entry of any type
lastNarratorEntry_anyType(entries) ==
  IF entries = <<>> THEN Undefined ELSE Some(entries[Len(entries)])

\* entries.filter(narrator or ascii).slice(-1)[0]
lastNarratorEntry(entries) ==
  LET eligible == SelectSeq(entries,
                    LAMBDA e : e.type = "narrator" \/ e.type = "ascii")
  IN IF eligible = <<>> THEN Undefined ELSE Some(eligible[Len(eligible)])

\* new Map(prev).set(id, text)
MapSet(map, id, text) ==
  [k \in DOMAIN map \cup {id} |-> IF k = id THEN text ELSE map[k]]

\* displayedText.get(id) || ''
MapGetOrEmpty(map, id) == IF id \in DOMAIN map THEN map[id] ELSE <<>>

getDisplayText(log, entries, entry) ==
  IF entry.type = "player" \/ entry.type = "system" THEN entry.content
  ELSE IF /\ lastNarratorEntry(entries) # Undefined
          /\ entry.rt = Val(lastNarratorEntry(entries)).rt
          /\ entry.rt \notin log.completedEntries
    THEN MapGetOrEmpty(log.displayedText, entry.rt)
  ELSE entry.content

\* the callbacks the controller ran while it went from before to after:
\* onUpdate stores the text under the animated id, onComplete marks the id
\* complete (and calls onSkipTyping, see TypingAfter)
Callbacks(log, before, after) ==
  LET id == Val(log.animated)
      shown == IF Len(after.updates) > Len(before.updates)
                 THEN MapSet(log.displayedText, id,
                             after.updates[Len(after.updates)])
                 ELSE log.displayedText
  IN [log EXCEPT !.controller = Some(after),
                 !.displayedText = shown,
                 !.completedEntries =
                    IF after.completions > before.completions
                      THEN @ \cup {id} ELSE @]

\* onSkipTyping = setTypingComplete, called by onComplete
TypingAfter(before, after) ==
  IF after.completions > before.completions THEN FALSE ELSE isTyping

\* the dependencies of the typewriter effect as the component renders now
EffectDeps ==
  [lastNarratorEntry |-> {e.rt : e \in lastNarratorEntry(narrativeEntries)},
   completedEntries |-> narrativeLog.completedEntries]

\* the store appends an entry (addNarrativeEntry) and the component renders
AppendEntry(type, content) ==
  /\ Len(narrativeEntries) < MaxLog
  /\ Set(addNarrativeEntry(State(narrativeLog.appended + 1),
                           [type |-> type, content |-> content]))
  /\ narrativeLog' = [narrativeLog EXCEPT !.appended = @ + 1]
  /\ UNCHANGED <<initializationSession, calls, lastResolved, lastUpdate,
                 typewriter, validation, context, sanitized>>

\* the typewriter effect runs because a dependency changed: the cleanup of the
\* previous run, then the body
TypewriterEffect ==
  /\ EffectDeps # narrativeLog.deps
  /\ LET cleaned == IF narrativeLog.typewriterRef
                      THEN [narrativeLog EXCEPT
                              !.controller = Some(stop(Val(@))),
                              !.typewriterRef = FALSE]
                      ELSE narrativeLog
         latest == lastNarratorEntry(narrativeEntries)
     IN IF latest = Undefined \/ Val(latest).rt \in cleaned.completedEntries
          THEN /\ narrativeLog' = [cleaned EXCEPT !.deps = EffectDeps]
               /\ UNCHANGED isTyping
          ELSE LET made == createTypewriter(Val(latest).content)
                   started == start(made)
                   log == [cleaned EXCEPT !.animated = Some(Val(latest).rt),
                                          !.typewriterRef = TRUE,
                                          !.deps = EffectDeps]
               IN /\ narrativeLog' = Callbacks(log, made, started)
                  /\ isTyping' = TypingAfter(made, started)
  /\ UNCHANGED <<initializationSession, health, inventory, isGameOver, history,
                 isProcessing, narrativeEntries, isMuted, currentTheme,
                 textSpeed, calls, soundsPlayed, lastResolved, lastUpdate,
                 typewriter, validation, context, sanitized>>

\* a timeout of the controller fires and runs its tick
ControllerTimerFires(id) ==
  /\ narrativeLog.controller # Undefined
  /\ id \in Val(narrativeLog.controller).timers
  /\ LET before == Val(narrativeLog.controller)
         after == tick([before EXCEPT !.timers = @ \ {id}, !.last = "tick"])
     IN /\ narrativeLog' = Callbacks(narrativeLog, before, after)
        /\ isTyping' = TypingAfter(before, after)
  /\ UNCHANGED <<initializationSession, health, inventory, isGameOver, history,
                 isProcessing, narrativeEntries, isMuted, currentTheme,
                 textSpeed, calls, soundsPlayed, lastResolved, lastUpdate,
                 typewriter, validation, context, sanitized>>

\* a click, or a key without modifier: handleSkip
handleSkip ==
  /\ isTyping
  /\ narrativeLog.typewriterRef
  /\ ~isComplete(Val(narrativeLog.controller))
  /\ LET before == Val(narrativeLog.controller)
         after == Called(skip(before), "skip")
     IN /\ narrativeLog' = Callbacks(narrativeLog, before, after)
        /\ isTyping' = TypingAfter(before, after)
  /\ UNCHANGED <<initializationSession, health, inventory, isGameOver, history,
                 isProcessing, narrativeEntries, isMuted, currentTheme,
                 textSpeed, calls, soundsPlayed, lastResolved, lastUpdate,
                 typewriter, validation, context, sanitized>>

\* the component mounted over an empty log; its effect ran and made nothing
InitNarrativeLog ==
  /\ InitStore
  /\ typewriter = Undefined /\ validation = Undefined /\ context = Undefined
  /\ sanitized = Undefined
  /\ narrativeLog =
       [displayedText |-> <<>>, completedEntries |-> {},
        controller |-> Undefined, animated |-> Undefined,
        typewriterRef |-> FALSE, appended |-> 0,
        deps |-> [lastNarratorEntry |-> {}, completedEntries |-> {}]]

NextNarrativeLog ==
  \/ \E type \in EntryTypes, content \in LogTexts : AppendEntry(type, content)
  \/ TypewriterEffect
  \/ \E id \in TimerIds : ControllerTimerFires(id)
  \/ handleSkip

SpecNarrativeLog == InitNarrativeLog /\ [][NextNarrativeLog]_vars

\* ============================================================ properties
Ids == 1..MaxOps

\* calls[i] awaits the generator and its session has been superseded
Stale(i) == Awaiting(i) /\ calls[i].currentSession # initializationSession
\* calls[i] resolves in this step
Resolves(i) == Awaiting(i) /\ calls'[i].status = "done"

Entry(k) == narrativeEntries[k]
Positions == 1..Len(narrativeEntries)
NotificationTexts ==
  {"> ACQUIRED: " \o ToUpperCase(item) : item \in Items \cup ApplyItems}
  \cup {"> USED: " \o ToUpperCase(item) : item \in Items \cup ApplyItems}
IsNotification(e) == e.type = "system" /\ e.content \in NotificationTexts

\* C1: when an initializeGame round-trip whose session was superseded by
\* resetGame/setTheme resolves (success, failure or thrown), the step changes
\* none of health, inventory, isGameOver, history, narrativeEntries and hands
\* no cue to the sound player.
C1_StaleInitializeGameDiscarded ==
  [][\A i \in Ids :
       (Stale(i) /\ calls[i].op = "initializeGame" /\ Resolves(i))
         => UNCHANGED <<health, inventory, isGameOver, history,
                        narrativeEntries, soundsPlayed>>]_vars

\* C1 witness: a superseded initializeGame has resolved with a success result
\* and the log holds no narrator entry of it.
C1_Witness ==
  \E r \in lastResolved :
    /\ r.op = "initializeGame"
    /\ r.kind = "success"
    /\ r.currentSession < r.resolvedIn
    /\ \A k \in Positions : Entry(k).rt # r.id

\* C2: when a submitCommand round-trip whose session was superseded by
\* resetGame/setTheme resolves (success or failure), the step changes none of
\* health, inventory, isGameOver, history, narrativeEntries.
C2_StaleSubmitCommandDiscarded ==
  [][\A i \in Ids :
       (Stale(i) /\ calls[i].op = "submitCommand" /\ Resolves(i))
         => UNCHANGED <<health, inventory, isGameOver, history,
                        narrativeEntries>>]_vars

\* C3: a round-trip (initializeGame or submitCommand) whose session was
\* superseded before it resolved never takes isProcessing from true to false.
C3_StaleNeverClearsProcessing ==
  [][\A i \in Ids :
       (Stale(i) /\ Resolves(i)) => ~(isProcessing /\ ~isProcessing')]_vars

\* C4: at most one round-trip started under the current session token is
\* awaiting the generator.
C4_OneRoundTripPerSession ==
  Cardinality({i \in 1..Len(calls) :
                 Awaiting(i) /\ calls[i].currentSession = initializationSession}) <= 1

\* C5: a submitCommand that goes to the generator appends the player entry
\* with the raw command in the step that starts the call, and every other
\* entry a submitCommand round-trip puts in the log (narrator, art,
\* notification, error) has the player entry of that round-trip before it.
C5_PlayerEntryPrecedesResponse ==
  /\ [][\A i \in Ids :
          (Len(calls) = i - 1 /\ Len(calls') = i
             /\ calls'[i].op = "submitCommand" /\ calls'[i].status = "awaiting")
            => narrativeEntries' =
                 Append(narrativeEntries,
                        [type |-> "player", content |-> calls'[i].command,
                         rt |-> i])]_vars
  /\ [](\A k \in Positions :
          (Entry(k).rt \in 1..Len(calls)
             /\ calls[Entry(k).rt].op = "submitCommand"
             /\ Entry(k).type # "player")
            => \E j \in 1..(k - 1) :
                 Entry(j).rt = Entry(k).rt /\ Entry(j).type = "player")

C7_GameOverIffNoHealth == isGameOver <=> (health <= 0)

\* C7 witness: a delta has driven health to 0 and the game is over.
C7_Witness ==
  /\ isGameOver
  /\ health = 0
  /\ \E r \in lastResolved : r.kind = "success"

NoDuplicates(seq) ==
  \A i, j \in 1..Len(seq) : seq[i] = seq[j] => i = j

\* C8: health is an integer in [0,100] and inventory holds no item twice.
C8_HealthRangeAndNoDuplicates ==
  /\ health \in 0..100
  /\ NoDuplicates(inventory)

\* C8 witness: two deltas added the same item and a third changed health.
C8_Witness ==
  /\ inventory = <<"torch">>
  /\ Cardinality({k \in Positions :
                    Entry(k).content = "> ACQUIRED: TORCH"}) >= 2
  /\ health = 40

ExpectedHealth(h, change) ==
  IF h + change < 0 THEN 0 ELSE IF h + change > 100 THEN 100 ELSE h + change

\* C9: applyStateUpdate with health_change = c takes health h to
\* max(0, min(100, h + c)), for c = 0 too; without health_change health keeps
\* its value.
C9_HealthClamped ==
  [][\A update \in lastUpdate' :
       health' = IF update.health_change = Undefined
                   THEN health
                   ELSE ExpectedHealth(health, Val(update.health_change))]_vars

\* C9 witness: the latest delta carried a negative change and health stands
\* at 0.
C9_Witness ==
  \E update \in lastUpdate :
    /\ update.health_change # Undefined
    /\ Val(update.health_change) < 0
    /\ health = 0

AddOnly(update) ==
  update.inventory_add # Undefined /\ update.inventory_remove = Undefined
RemoveOnly(update) ==
  update.inventory_remove # Undefined /\ update.inventory_add = Undefined

\* C10: applying {inventory_add: item} a second time in succession leaves the
\* inventory as the first application left it (same items, same positions);
\* applying {inventory_remove: item} for an item not in the inventory leaves
\* the inventory unchanged.
C10_AddIdempotentRemoveAbsentNoop ==
  [][\A update \in lastUpdate' :
       /\ (AddOnly(update) /\ lastUpdate = Some(update))
            => inventory' = inventory
       /\ (RemoveOnly(update)
             /\ ~Includes(inventory, Val(update.inventory_remove)))
            => inventory' = inventory]_vars

\* C10 witness: an item was added twice in succession to an inventory that
\* holds another item before it.
C10_Witness ==
  /\ inventory = <<"key", "torch">>
  /\ \E update \in lastUpdate :
       AddOnly(update) /\ update.inventory_add = Some("torch")
  /\ Len(narrativeEntries) >= 2
  /\ Entry(Len(narrativeEntries)).content = "> ACQUIRED: TORCH"
  /\ Entry(Len(narrativeEntries) - 1).content = "> ACQUIRED: TORCH"

\* the entries the step appended to the log, <<>> if it is not an extension
Appended ==
  IF Len(narrativeEntries') >= Len(narrativeEntries)
       /\ SubSeq(narrativeEntries', 1, Len(narrativeEntries)) = narrativeEntries
    THEN SubSeq(narrativeEntries', Len(narrativeEntries) + 1, Len(narrativeEntries'))
    ELSE <<>>
IsExtension ==
  /\ Len(narrativeEntries') >= Len(narrativeEntries)
  /\ SubSeq(narrativeEntries', 1, Len(narrativeEntries)) = narrativeEntries

C12_InitializeGameNoopWhenGuardFails ==
  [][(Len(history) # 0 \/ isProcessing)
       => StartInitializeGame(State(0), calls) = <<State(0), calls>>]_vars

\* C12 witness: an initialization is in flight (a second boot call would find
\* isProcessing true and an empty history).
C12_Witness ==
  /\ isProcessing
  /\ Len(history) = 0
  /\ \E i \in 1..Len(calls) :
       /\ Awaiting(i)
       /\ calls[i].op = "initializeGame"
       /\ calls[i].currentSession = initializationSession

\* every command text the model submits
CommandTexts == Commands \cup {"help", "INSTRUCTIONS"}

\* C13: submitCommand called while isProcessing or isGameOver is true, with
\* any command text (help included), returns the store it found, field for
\* field (no log entry added), and issues no generator call.
C13_SubmitCommandNoopWhenGuardFails ==
  [][(isProcessing \/ isGameOver)
       => \A command \in CommandTexts :
            StartSubmitCommand(State(Len(calls) + 1), calls, command)
              = <<State(Len(calls) + 1), calls>>]_vars

\* C13 witness: the game is over and nothing is in flight (a command would
\* be stopped by isGameOver alone).
C13_Witness ==
  /\ isGameOver
  /\ ~isProcessing
  /\ \A i \in 1..Len(calls) : ~Awaiting(i)

\* round-trips of the session the step leaves the store in that await the
\* generator after the step
OutstandingAfter ==
  {i \in 1..Len(calls') :
     calls'[i].status = "awaiting"
       /\ calls'[i].currentSession = initializationSession'}

\* what a reset leaves behind, whichever operation performed it
ResetEffect ==
  /\ initializationSession' = initializationSession + 1
  /\ health' = 100
  /\ inventory' = <<>>
  /\ isGameOver' = FALSE
  /\ history' = <<>>
  /\ narrativeEntries' = <<>>
  /\ isTyping' = FALSE
  /\ UNCHANGED <<isMuted, textSpeed>>
  /\ isProcessing' = TRUE
  /\ OutstandingAfter = {Len(calls')}
  /\ Len(calls') = Len(calls) + 1
  /\ calls'[Len(calls')].op = "initializeGame"

\* C14: resetGame, in whatever state it is called, increments the session
\* counter by one, sets health 100, inventory, history and log empty,
\* isGameOver and isTyping false, keeps isMuted, textSpeed and currentTheme,
\* and returns with isProcessing true and exactly one generator call of the
\* new session outstanding, an initializeGame.
C14_ResetGameEffect ==
  [][resetGame => (ResetEffect /\ UNCHANGED currentTheme)]_vars

\* C14 witness: a reset found a round-trip in flight and non-default
\* preferences; the old call still awaits, the new initialization is the one
\* call of the current session.
C14_Witness ==
  /\ initializationSession = 2
  /\ isMuted
  /\ textSpeed = "fast"
  /\ currentTheme = "scifi"
  /\ narrativeEntries = <<>>
  /\ isProcessing
  /\ \E i \in 1..Len(calls) : Stale(i)
  /\ \E i \in 1..Len(calls) :
       /\ Awaiting(i)
       /\ calls[i].op = "initializeGame"
       /\ calls[i].currentSession = initializationSession

C16_SessionTokenMonotonic ==
  [][IF resetGame \/ \E t \in ThemeKey : setTheme(t)
       THEN initializationSession' = initializationSession + 1
       ELSE initializationSession' = initializationSession]_vars

\* C16 witness: the counter was incremented twice, and a round-trip has since
\* succeeded and a preference was changed.
C16_Witness ==
  /\ initializationSession = 2
  /\ Len(history) = 2
  /\ isMuted
  /\ \E r \in lastResolved : r.kind = "success" /\ r.currentSession = 2

\* C17: from a state with isGameOver true, every step that is not a resetGame
\* or setTheme leaves isGameOver true and starts no submitCommand (no player
\* entry, no generator call).
C17_GameOverPersists ==
  [][(isGameOver /\ initializationSession' = initializationSession)
       => /\ isGameOver'
          /\ \A i \in 1..Len(calls') :
               (i > Len(calls)) => calls'[i].op # "submitCommand"
          /\ ~\E k \in 1..Len(narrativeEntries') :
                k > Len(narrativeEntries) /\ narrativeEntries'[k].type = "player"]_vars

\* the text a round-trip commits as its user turn
UserTurn(call) ==
  IF call.op = "initializeGame" THEN "__START_GAME__" ELSE call.command

\* C18: history always has even length and alternates user, assistant; a step
\* changes it only by emptying it in a reset or by appending one pair (user,
\* assistant) at once, which happens exactly in the step in which a round-trip
\* resolves with success (a superseded initializeGame aside, see C1); the
\* pair is that round-trip's request and the narrative it returned (the text
\* of the narrator entry the same step appends), so pairs of different
\* round-trips never interleave.
C18_HistoryInPairs ==
  /\ [](/\ Len(history) % 2 = 0
        /\ \A k \in 1..Len(history) :
             history[k].role = IF k % 2 = 1 THEN "user" ELSE "assistant")
  /\ [][history' # history
          => \/ /\ history' = <<>>
                /\ initializationSession' # initializationSession
             \/ \E i \in Ids : \E r \in lastResolved' :
                  /\ Resolves(i)
                  /\ r.id = i
                  /\ r.kind = "success"
                  /\ \E k \in 1..Len(narrativeEntries') :
                       /\ k > Len(narrativeEntries)
                       /\ narrativeEntries'[k].type = "narrator"
                       /\ narrativeEntries'[k].rt = i
                       /\ history' = history \o
                            <<[role |-> "user", content |-> UserTurn(calls[i])],
                              [role |-> "assistant",
                               content |-> narrativeEntries'[k].content]>>]_vars
  /\ [][\A i \in Ids : \A r \in lastResolved' :
          (Resolves(i) /\ r.id = i /\ r.kind = "success"
             /\ ~(Stale(i) /\ calls[i].op = "initializeGame"))
            => Len(history') = Len(history) + 2]_vars

\* C18 witness: two round-trips have committed their pairs, the prologue
\* first and a command after it.
C18_Witness ==
  /\ Len(history) = 4
  /\ history[1].content = "__START_GAME__"
  /\ history[3].content = "look"
  /\ history[4].content \in {"n1", "n2"}

\* C19: a step that is not a resetGame or setTheme leaves every entry of the
\* log in place and unchanged and can only add entries after them; a
\* resetGame or setTheme step empties the log.
C19_LogAppendOnly ==
  [][IF initializationSession' = initializationSession
       THEN IsExtension
       ELSE narrativeEntries' = <<>>]_vars

\* C19 witness: the log holds entries of two round-trips, the older ones
\* first.
C19_Witness ==
  /\ Len(narrativeEntries) >= 3
  /\ Entry(1).type = "narrator"
  /\ Entry(2).type = "player"
  /\ Entry(1).rt < Entry(2).rt
  /\ Entry(3).rt = Entry(2).rt

\* texts that are 'help' or 'instructions' once trimmed and lower-cased
HelpTexts == {" Help ", "help", "INSTRUCTIONS"}

\* C20: a submitCommand that passes its guard with a help text starts no
\* generator call, appends the player entry and then exactly one system entry
\* holding the help text of the current theme, leaves isProcessing false and
\* leaves health, inventory, isGameOver and history as they were.
C20_HelpAnsweredLocally ==
  [][\A command \in HelpTexts :
       submitCommand(command)
         => /\ \A j \in 1..Len(calls') :
                 calls'[j].status = "awaiting"
                   => (j <= Len(calls) /\ calls'[j] = calls[j])
            /\ narrativeEntries' = narrativeEntries \o
                 <<[type |-> "player", content |-> command,
                    rt |-> Len(calls) + 1],
                   [type |-> "system",
                    content |-> THEME_CONFIG(currentTheme).helpMessage,
                    rt |-> Len(calls) + 1]>>
            /\ ~isProcessing /\ ~isProcessing'
            /\ UNCHANGED <<health, inventory, isGameOver, history>>]_vars

\* C20 witness: in the scifi theme, after the prologue changed health, a help
\* request in capitals and blanks was answered from the theme's help text;
\* nothing awaits the generator.
C20_Witness ==
  /\ currentTheme = "scifi"
  /\ health = 40
  /\ Len(history) = 2
  /\ ~isProcessing
  /\ \A i \in 1..Len(calls) : ~Awaiting(i)
  /\ Len(narrativeEntries) >= 2
  /\ Entry(Len(narrativeEntries) - 1) \in
       [type : {"player"}, content : {" Help ", "INSTRUCTIONS"}, rt : Ids]
  /\ Entry(Len(narrativeEntries)).type = "system"
  /\ Entry(Len(narrativeEntries)).content = THEME_CONFIG("scifi").helpMessage

\* C21: skip() on a controller that is running or paused (started, not
\* complete) leaves no timeout scheduled, hands the full text to onUpdate
\* exactly once, makes the controller complete and calls onComplete exactly
\* once; skip() on a complete controller emits nothing, calls nothing and
\* changes nothing, and no timeout is left to fire after either.
C21_SkipCompletesOnce ==
  [][Skip =>
       /\ ((typewriter.running \/ typewriter.paused) /\ ~typewriter.complete)
            => /\ typewriter'.timers = {}
               /\ typewriter'.updates = Append(typewriter.updates, typewriter.fullText)
               /\ typewriter'.complete
               /\ ~typewriter'.running
               /\ typewriter'.completions = typewriter.completions + 1
       /\ typewriter.complete
            => /\ typewriter' = Called(typewriter, "skip")
               /\ typewriter'.timers = {}]_vars

\* C21 witness: a three-character text was started, paused after its first
\* character and skipped; a further call found it complete; onComplete was
\* called once.
C21_Witness ==
  /\ typewriter.fullText = <<"a", "b", "a">>
  /\ typewriter.complete
  /\ typewriter.paused
  /\ typewriter.updates = <<<<>>, <<"a">>, <<"a", "b", "a">>>>
  /\ typewriter.completions = 1
  /\ typewriter.calls = 4
  /\ typewriter.last = "skip"
  /\ typewriter.timers = {}

\* C22 as stated: over the whole life of a controller, whatever methods are
\* called on it, onComplete is called at most once.
C22_CompletesAtMostOnce == typewriter.completions <= 1

\* C22, amended: onComplete is called at most once per run of the animation,
\* a run ending only at stop().  Every call of onComplete is one call, made by
\* a step that takes the controller from not complete to complete (a tick
\* revealing the last character, or skip, never both), and only stop() makes
\* a complete controller not complete again.
C22_CompletesOncePerRun ==
  [][/\ typewriter'.completions # typewriter.completions
          => /\ typewriter'.completions = typewriter.completions + 1
             /\ ~typewriter.complete
             /\ typewriter'.complete
     /\ (typewriter.complete /\ ~typewriter'.complete) => Stop
     /\ (typewriter.complete /\ typewriter'.complete)
          => typewriter'.completions = typewriter.completions]_vars

\* A controller completed by its ticks, stopped, and completed again by skip.
C22_Witness ==
  /\ typewriter.fullText = <<"a">>
  /\ typewriter.completions = 2
  /\ typewriter.complete
  /\ typewriter.updates = << <<>>, <<"a">>, <<"a">> >>
  /\ typewriter.last = "skip"
  /\ typewriter.timers = {}

\* C23: start() acts on an idle controller only.  On a running, paused or
\* complete controller it changes nothing: no update is emitted, no timeout
\* is scheduled, the revealed prefix and the flags stay as they were.  On an
\* idle controller it emits the empty prefix and leaves the idle state: a
\* timeout is scheduled and the controller runs, or (empty text) it is
\* complete at once.
C23_StartOnlyFromIdle ==
  [][Start =>
       /\ (typewriter.running \/ typewriter.paused \/ typewriter.complete)
            => /\ typewriter' = Called(typewriter, "start")
               /\ typewriter'.updates = typewriter.updates
               /\ typewriter'.timers = typewriter.timers
               /\ typewriter'.currentIndex = typewriter.currentIndex
       /\ ~(typewriter.running \/ typewriter.paused \/ typewriter.complete)
            => /\ typewriter'.updates = Append(typewriter.updates, <<>>)
               /\ \/ typewriter'.running /\ typewriter'.timers # {}
                  \/ typewriter'.complete /\ typewriter.fullText = <<>>]_vars

\* C23 witness: start() was called on a controller that skip had completed;
\* the text was not replayed.
C23_Witness ==
  /\ typewriter.fullText = <<"a", "b">>
  /\ typewriter.last = "start"
  /\ typewriter.calls = 3
  /\ typewriter.complete
  /\ typewriter.updates = << <<>>, <<"a", "b">> >>
  /\ typewriter.completions = 1

\* C24 as stated: getCurrentText() returns the same text immediately before
\* and immediately after every pause() and every resume() call.
C24_PauseResumeKeepText ==
  [][(Pause \/ Resume)
       => getCurrentText(typewriter') = getCurrentText(typewriter)]_vars

\* C24, amended: pause() leaves getCurrentText() as it was, emits nothing and
\* on a running controller cancels the pending timeout, so that no timeout is
\* pending while the controller is paused and no tick emits an update.
\* resume() on a paused controller that is not complete runs the next tick at
\* once: it emits the text getCurrentText() returned before the call, reveals
\* one character more, and schedules the following tick, or completes when
\* that was the whole text.
C24_PauseKeepsTextResumeTicks ==
  [][/\ Pause
          => /\ getCurrentText(typewriter') = getCurrentText(typewriter)
             /\ typewriter'.updates = typewriter.updates
             /\ (typewriter.running /\ ~typewriter.complete)
                  => typewriter'.paused /\ typewriter'.timers = {}
     /\ typewriter'.paused => typewriter'.timers = {}
     /\ (typewriter.paused /\ typewriter'.paused /\ ~typewriter'.complete)
          => typewriter'.updates = typewriter.updates
     /\ (Resume /\ typewriter.paused /\ ~typewriter.complete)
          => /\ typewriter'.updates =
                  Append(typewriter.updates, getCurrentText(typewriter))
             /\ typewriter'.currentIndex = typewriter.currentIndex + 1
             /\ ~typewriter'.paused
             /\ \/ /\ typewriter'.running
                   /\ typewriter'.timers # {}
                   /\ Len(getCurrentText(typewriter')) =
                        Len(getCurrentText(typewriter)) + 1
                \/ /\ typewriter'.complete
                   /\ typewriter'.timers = {}
                   /\ getCurrentText(typewriter) = typewriter.fullText
                   /\ typewriter'.completions = typewriter.completions + 1
     /\ (Resume /\ ~(typewriter.paused /\ ~typewriter.complete))
          => typewriter' = Called(typewriter, "resume")]_vars

\* C24 witness: a three-character text was started, paused and resumed: the
\* resume emitted "a" and getCurrentText() went from "a" to "ab".
C24_Witness ==
  /\ typewriter.fullText = <<"a", "b", "a">>
  /\ typewriter.last = "resume"
  /\ typewriter.calls = 3
  /\ typewriter.updates = << <<>>, <<"a">> >>
  /\ getCurrentText(typewriter) = <<"a", "b">>
  /\ typewriter.running
  /\ ~typewriter.paused
  /\ typewriter.timers # {}

\* C25 as stated: stop() cancels the pending timeout, empties the revealed
\* prefix and does not call onComplete, and from then on no update is emitted
\* until start() is called.
C25_StopSilencesUntilStart ==
  [][/\ Stop => /\ typewriter'.timers = {}
                /\ getCurrentText(typewriter') = <<>>
                /\ typewriter'.completions = typewriter.completions
     /\ (typewriter.stopped /\ ~Start)
          => typewriter'.updates = typewriter.updates]_vars

\* C25, amended: stop() cancels the pending timeout, empties the revealed
\* prefix, emits nothing, does not call onComplete and leaves the controller
\* idle; from then on an update is emitted only by start() or by skip(), skip
\* emitting the whole text.
C25_StopSilencesUntilStartOrSkip ==
  [][/\ Stop => /\ typewriter'.timers = {}
                /\ getCurrentText(typewriter') = <<>>
                /\ typewriter'.completions = typewriter.completions
                /\ typewriter'.updates = typewriter.updates
                /\ ~typewriter'.running /\ ~typewriter'.complete
     /\ (typewriter.stopped /\ ~Start /\ ~Skip)
          => typewriter'.updates = typewriter.updates
     /\ (typewriter.stopped /\ Skip)
          => typewriter'.updates \in
               {typewriter.updates,
                Append(typewriter.updates, typewriter.fullText)}]_vars

\* C25 witness: a two-character text was started, stopped and then skipped:
\* the skip emitted the whole text though start() was not called again.
C25_Witness ==
  /\ typewriter.fullText = <<"a", "b">>
  /\ typewriter.stopped
  /\ typewriter.last = "skip"
  /\ typewriter.calls = 3
  /\ typewriter.updates = << <<>>, <<"a", "b">> >>
  /\ typewriter.complete
  /\ typewriter.completions = 1

\* C26: a controller that is started and then left alone emits, tick after
\* tick, the prefixes of its text of length 0, 1, 2, ... N; with the prefix of
\* length N (the whole text) it becomes complete and onComplete is called,
\* once and not before; a complete controller has no timeout scheduled; and,
\* every scheduled timeout firing in the end, a started controller does
\* become complete.
C26_Revealed ==
  /\ \A k \in 1..Len(typewriter.updates) :
       typewriter.updates[k] = Slice(typewriter.fullText, k - 1)
  /\ Len(typewriter.updates) <= Len(typewriter.fullText) + 1
  /\ typewriter.complete <=>
       Len(typewriter.updates) = Len(typewriter.fullText) + 1
  /\ typewriter.completions = (IF typewriter.complete THEN 1 ELSE 0)
  /\ typewriter.complete => typewriter.timers = {}
  /\ (typewriter.calls = 1 /\ ~typewriter.complete)
       => typewriter.running /\ Cardinality(typewriter.timers) = 1

C26_TicksRevealWholeText ==
  /\ []C26_Revealed
  /\ (typewriter.calls = 1) ~> typewriter.complete

\* C26 witness: the last tick of a three-character text has fired.
C26_Witness ==
  /\ typewriter.fullText = <<"a", "b", "b">>
  /\ typewriter.last = "tick"
  /\ typewriter.calls = 1
  /\ typewriter.complete
  /\ typewriter.updates = << <<>>, <<"a">>, <<"a", "b">>, <<"a", "b", "b">> >>
  /\ typewriter.completions = 1
  /\ typewriter.timers = {}

\* ------------------------------------------------- a successful round-trip
\* the inventory after a delta: the added item appended unless held, then the
\* removed item taken out
DeltaInventory(inv, update) ==
  LET pushed == IF Truthy(update.inventory_add)
                     /\ ~\E k \in 1..Len(inv) : inv[k] = Val(update.inventory_add)
                  THEN Append(inv, Val(update.inventory_add)) ELSE inv
  IN IF Truthy(update.inventory_remove)
       THEN SelectSeq(pushed, LAMBDA item : item # Val(update.inventory_remove))
       ELSE pushed

\* C30: when a round-trip started under the session that is still current
\* resolves with success, that step applies the delta to health, inventory
\* and isGameOver, appends (after the delta's notifications) exactly one
\* narrator entry, with the narrative returned, and directly after it an art
\* entry if and only if visual_cue is not 'none' and the art found for it is
\* not empty, appends to the history exactly one pair (user: the request,
\* assistant: the narrative), hands the sound cue to the sound player if and
\* only if it is not 'none', and leaves isProcessing false.
C30_SuccessApplied ==
  [][\A i \in Ids : (Resolves(i) /\ ~Stale(i)) => \A r \in Outcomes :
       (/\ OutcomeKind(r) = "success"
        /\ ResolveSubmitCommand(i, r) \/ ResolveInitializeGame(i, r))
         => LET data == Val(r.data)
                update == data.game_state_update
                art == ASCII_ART(data.visual_cue)
                shown == data.visual_cue # "none" /\ art # ""
                n == NotificationCount(update)
            IN /\ health' = IF update.health_change = Undefined THEN health
                             ELSE ExpectedHealth(health, Val(update.health_change))
               /\ inventory' = DeltaInventory(inventory, update)
               /\ isGameOver' = (health' <= 0)
               /\ IsExtension
               /\ Len(Appended) = n + 1 + (IF shown THEN 1 ELSE 0)
               /\ \A k \in 1..n : IsNotification(Appended[k])
               /\ Appended[n + 1].type = "narrator"
               /\ Appended[n + 1].content = data.narrative
               /\ shown => /\ Appended[n + 2].type = "ascii"
                           /\ Appended[n + 2].content = art
               /\ history' = history \o
                     <<[role |-> "user", content |-> UserTurn(calls[i])],
                       [role |-> "assistant", content |-> data.narrative]>>
               /\ soundsPlayed' = IF data.sound_cue # "none"
                                    THEN Append(soundsPlayed, data.sound_cue)
                                    ELSE soundsPlayed
               /\ ~isProcessing']_vars

\* C30 witness: a submitCommand of the current session has resolved with the
\* response that carries art and sound: the log ends with its narrator entry
\* and its art entry, the history with its pair, and the cue was played.
C30_Witness ==
  /\ \E r \in lastResolved :
       /\ r.op = "submitCommand"
       /\ r.kind = "success"
       /\ r.currentSession = r.resolvedIn
       /\ Len(narrativeEntries) >= 2
       /\ Entry(Len(narrativeEntries)).rt = r.id
       /\ Entry(Len(narrativeEntries) - 1).rt = r.id
  /\ Entry(Len(narrativeEntries)).type = "ascii"
  /\ Entry(Len(narrativeEntries)).content = "<door art>"
  /\ Entry(Len(narrativeEntries) - 1).type = "narrator"
  /\ Entry(Len(narrativeEntries) - 1).content = "n2"
  /\ Len(history) = 4
  /\ history[3] = [role |-> "user", content |-> "look"]
  /\ history[4] = [role |-> "assistant", content |-> "n2"]
  /\ soundsPlayed # <<>>
  /\ soundsPlayed[Len(soundsPlayed)] = "wind"
  /\ ~isProcessing
RequiredFields == {"narrative", "visual_cue", "game_state_update", "sound_cue"}
DeltaFields == {"health_change", "inventory_add", "inventory_remove"}
VisualCueNames == {"none", "skeleton", "door", "chest", "monster", "void"}
SoundCueNames == {"none", "wind", "scream", "drip", "combat"}

\* the value an object has under a key, Undefined if it has none
Field(x, k) ==
  IF x.kind = "object" /\ k \in DOMAIN x.v THEN Some(x.v[k]) ELSE Undefined

DeltaField(x, k) ==
  IF Field(x, "game_state_update") = Undefined THEN Undefined
  ELSE Field(Val(Field(x, "game_state_update")), k)

IsString(opt) == opt # Undefined /\ Val(opt).kind = "string"
IsNumber(opt) == opt # Undefined /\ Val(opt).kind = "number"
IsInteger(opt) == IsNumber(opt) /\ Val(opt).halves % 2 = 0
IsObject(opt) == opt # Undefined /\ Val(opt).kind = "object"
IsMember(opt, names) == IsString(opt) /\ Val(opt).text \in names

LacksRequiredField(x) == \E k \in RequiredFields : Field(x, k) = Undefined

EnumOutsideSet(x) ==
  \/ Field(x, "visual_cue") # Undefined
       /\ ~IsMember(Field(x, "visual_cue"), VisualCueNames)
  \/ Field(x, "sound_cue") # Undefined
       /\ ~IsMember(Field(x, "sound_cue"), SoundCueNames)

StructurallyValid(x) ==
  /\ IsString(Field(x, "narrative"))
  /\ IsMember(Field(x, "visual_cue"), VisualCueNames)
  /\ IsMember(Field(x, "sound_cue"), SoundCueNames)
  /\ IsObject(Field(x, "game_state_update"))
  /\ DeltaField(x, "health_change") # Undefined
       => IsNumber(DeltaField(x, "health_change"))
  /\ DeltaField(x, "inventory_add") # Undefined
       => IsString(DeltaField(x, "inventory_add"))
  /\ DeltaField(x, "inventory_remove") # Undefined
       => IsString(DeltaField(x, "inventory_remove"))

\* data has the four fields of x and, in its delta, the delta fields x has,
\* each with the value x gives it, and nothing else
FieldForField(x, data) ==
  /\ data.kind = "object"
  /\ DOMAIN data.v = RequiredFields
  /\ \A k \in RequiredFields \ {"game_state_update"} : Field(data, k) = Field(x, k)
  /\ IsObject(Field(data, "game_state_update"))
  /\ DOMAIN Val(Field(data, "game_state_update")).v \subseteq DeltaFields
  /\ \A k \in DeltaFields : DeltaField(data, k) = DeltaField(x, k)

\* C27: the validator fails for every value that lacks narrative, visual_cue,
\* sound_cue or game_state_update or whose visual_cue or sound_cue is outside
\* its enumeration; for every structurally valid object, whichever of the
\* optional delta fields are absent, it succeeds and the data it returns is
\* equal to the input field for field.
C27_ValidatorAcceptsExactlyValid ==
  validation.done =>
    /\ (LacksRequiredField(validation.input) \/ EnumOutsideSet(validation.input))
         => validation.result = Undefined
    /\ StructurallyValid(validation.input)
         => /\ validation.result # Undefined
            /\ FieldForField(validation.input, Val(validation.result))

\* C27 witness: an object with only inventory_add in its delta (and a key the
\* schema does not name) was parsed with success.
C27_Witness ==
  /\ validation.done
  /\ validation.input =
       MakeObject([narrative |-> Some(Str("n1")), visual_cue |-> Some(Str("door")),
                   game_state_update |->
                     Some(MakeObject([health_change |-> Undefined,
                                      inventory_add |-> Some(Str("torch")),
                                      inventory_remove |-> Undefined])),
                   sound_cue |-> Some(Str("wind")), debug |-> Some(Str("x"))])
  /\ validation.result # Undefined
  /\ DeltaField(Val(validation.result), "inventory_add") = Some(Str("torch"))
  /\ DeltaField(Val(validation.result), "health_change") = Undefined

\* C28 as stated: the validator rejects a response whose narrative is the
\* empty string, whose health_change is present and not an integer, or whose
\* inventory_add or inventory_remove is present and the empty string.
C28_RejectsEmptyAndFractional ==
  (/\ validation.done
   /\ \/ Field(validation.input, "narrative") = Some(Str(""))
      \/ DeltaField(validation.input, "health_change") # Undefined
           /\ ~IsInteger(DeltaField(validation.input, "health_change"))
      \/ DeltaField(validation.input, "inventory_add") = Some(Str(""))
      \/ DeltaField(validation.input, "inventory_remove") = Some(Str("")))
    => validation.result = Undefined

\* C28, amended: the validator rejects a response whose narrative is not a
\* string, whose health_change is present and not a number, or whose
\* inventory_add or inventory_remove is present and not a string; it accepts
\* an otherwise valid response whose narrative is the empty string, whose
\* health_change is a number that is not an integer, or whose inventory_add
\* or inventory_remove is the empty string.
C28_RejectsWrongTypesOnly ==
  validation.done =>
    /\ (\/ ~IsString(Field(validation.input, "narrative"))
        \/ DeltaField(validation.input, "health_change") # Undefined
             /\ ~IsNumber(DeltaField(validation.input, "health_change"))
        \/ DeltaField(validation.input, "inventory_add") # Undefined
             /\ ~IsString(DeltaField(validation.input, "inventory_add"))
        \/ DeltaField(validation.input, "inventory_remove") # Undefined
             /\ ~IsString(DeltaField(validation.input, "inventory_remove")))
         => validation.result = Undefined
    /\ (/\ StructurallyValid(validation.input)
        /\ \/ Field(validation.input, "narrative") = Some(Str(""))
           \/ ~IsInteger(DeltaField(validation.input, "health_change"))
           \/ DeltaField(validation.input, "inventory_add") = Some(Str(""))
           \/ DeltaField(validation.input, "inventory_remove") = Some(Str("")))
         => validation.result # Undefined

\* C28 witness: a response with an empty narrative, health_change 0.5 and an
\* empty inventory_add was parsed with success.
C28_Witness ==
  /\ validation.done
  /\ Field(validation.input, "narrative") = Some(Str(""))
  /\ DeltaField(validation.input, "health_change") = Some(Num(1))
  /\ DeltaField(validation.input, "inventory_add") = Some(Str(""))
  /\ validation.result # Undefined
  /\ DeltaField(Val(validation.result), "health_change") = Some(Num(1))

\* ---------------------------------------------------------- the context
\* the piece is somewhere in the text
Contains(text, piece) ==
  \E i \in 1..Len(text) : \E j \in 1..Len(text[i]) : text[i][j] = piece

\* the lines under the RECENT HISTORY heading that are not empty
TurnLines(text) ==
  LET heading == CHOOSE i \in 1..Len(text) : text[i] = <<"## RECENT HISTORY">>
  IN SelectSeq(SubSeq(text, heading + 1, Len(text)), LAMBDA line : line # <<>>)

\* C29: for a history of N turns the context holds exactly the last
\* min(N, 10) turns, in their order, each with its role and content, and no
\* earlier turn; it holds the current health and every inventory item.
C29_ContextHoldsLastTenTurns ==
  context.done =>
    LET n == Len(context.history)
        m == Min(n, 10)
        lines == TurnLines(context.result)
    IN /\ Len(lines) = m
       /\ \A k \in 1..m :
            /\ Contains(<<lines[k]>>, context.history[n - m + k].content)
            /\ Contains(<<lines[k]>>,
                        ToUpperCase(context.history[n - m + k].role))
       /\ \A k \in 1..(n - m) :
            ~Contains(context.result, context.history[k].content)
       /\ Contains(context.result, ToString(context.playerState.health))
       /\ \A i \in 1..Len(context.playerState.inventory) :
            Contains(context.result, context.playerState.inventory[i])

\* C29 witness: a context was built from twelve turns and two items; it
\* begins its history with the third turn.
C29_Witness ==
  /\ context.done
  /\ Len(context.history) = 12
  /\ context.playerState = [health |-> 30, inventory |-> <<"torch", "key">>]
  /\ Len(TurnLines(context.result)) = 10
  /\ TurnLines(context.result)[1] = <<"USER", ": ", "turn 3.">>
  /\ TurnLines(context.result)[10] = <<"ASSISTANT", ": ", "turn 12.">>
  /\ Contains(context.result, "key")

\* ------------------------------------------- the applicator's notifications
AppendedContents == {Appended[k].content : k \in 1..Len(Appended)}

\* C36 as stated: applyStateUpdate appends an ACQUIRED entry only for an item
\* that was not in the inventory and a USED entry only for an item that was
\* in it (or that the same delta added); a delta that leaves the inventory as
\* it was appends no notification.
C36_NotifiesChangesOnly ==
  [][\A update \in lastUpdate' :
       /\ \A item \in ApplyItems :
            ("> ACQUIRED: " \o ToUpperCase(item)) \in AppendedContents
              => ~Includes(inventory, item)
       /\ \A item \in ApplyItems :
            ("> USED: " \o ToUpperCase(item)) \in AppendedContents
              => \/ Includes(inventory, item)
                 \/ update.inventory_add = Some(item)
       /\ inventory' = inventory => Appended = <<>>]_vars

\* C37: a delta whose inventory_add and inventory_remove name the same item
\* leaves an inventory without that item, the other items as they were and in
\* their order.
C37_AddThenRemove ==
  [][\A update \in lastUpdate' :
       (/\ Truthy(update.inventory_add)
        /\ update.inventory_remove = update.inventory_add)
         => /\ ~Includes(inventory', Val(update.inventory_add))
            /\ inventory' =
                 SelectSeq(inventory,
                           LAMBDA item : item # Val(update.inventory_add))]_vars

\* C37 witness: with the key held, one delta added and removed the torch.
C37_Witness ==
  /\ inventory = <<"key">>
  /\ \E update \in lastUpdate :
       /\ update.inventory_add = Some("torch")
       /\ update.inventory_remove = Some("torch")
  /\ Len(narrativeEntries) = 3
  /\ Entry(1).content = "> ACQUIRED: KEY"
  /\ Entry(2).content = "> ACQUIRED: TORCH"
  /\ Entry(3).content = "> USED: TORCH"

\* ------------------------------------------------- the controller's timers
\* C38: whatever methods are called on a controller and whenever its timeouts
\* fire, at most one timeout of it is pending, none is pending while it is
\* paused, complete or not running (stopped, or not started), and a timeout
\* that fires in such a state emits no update.
C38_OneTimerNoneWhenHalted ==
  /\ [](/\ Cardinality(typewriter.timers) <= 1
        /\ (typewriter.paused \/ typewriter.complete \/ ~typewriter.running)
             => typewriter.timers = {})
  /\ [][((\E id \in TimerIds : TimerFires(id))
           /\ (typewriter.paused \/ typewriter.complete \/ ~typewriter.running))
          => typewriter'.updates = typewriter.updates]_vars

\* C38 witness: a controller was started, ticked once, paused, resumed and
\* paused again: no timeout is pending.
C38_Witness ==
  /\ typewriter.fullText = <<"a", "b", "a", "b">>
  /\ typewriter.last = "pause"
  /\ typewriter.calls = 4
  /\ typewriter.paused
  /\ typewriter.running
  /\ typewriter.updates = << <<>>, <<"a">>, <<"a", "b">> >>
  /\ typewriter.timers = {}

\* the text most recently handed to onUpdate, empty if none was
LastEmitted(c) ==
  IF c.updates = <<>> THEN <<>> ELSE c.updates[Len(c.updates)]

\* C39 as stated: after every tick, pause, resume and skip of a controller
\* that was not stopped since its last start, getCurrentText() is the text
\* most recently handed to onUpdate (the empty text if none was).
C39_CurrentTextIsLastEmitted ==
  [][(/\ \/ \E id \in TimerIds : TimerFires(id)
         \/ Pause
         \/ Resume
         \/ Skip
      /\ ~typewriter'.stopped)
       => getCurrentText(typewriter') = LastEmitted(typewriter')]_vars

\* ------------------------------------------- initializations and resets
NarratorPositions == {k \in Positions : Entry(k).type = "narrator"}

\* C32: after resets or theme changes made while initializations were in
\* flight, once every initialization has resolved (each with success, in any
\* order), the log holds exactly one narrator entry, that of the
\* initialization the last reset started, the history holds exactly its two
\* turns, and isProcessing is false.
C32_OnlyLastInitializationApplied ==
  (/\ initializationSession >= 1
   /\ \A i \in 1..Len(calls) : ~Awaiting(i))
    => /\ Cardinality(NarratorPositions) = 1
       /\ \A k \in NarratorPositions : Entry(k).rt = Len(calls)
       /\ Len(history) = 2
       /\ history[1] = [role |-> "user", content |-> "__START_GAME__"]
       /\ history[2].role = "assistant"
       /\ \A k \in NarratorPositions : history[2].content = Entry(k).content
       /\ ~isProcessing

\* C32 witness: two resets were made while initializations were in flight;
\* all three initializations have resolved, a superseded one last.
C32_Witness ==
  /\ initializationSession = 2
  /\ Len(calls) = 3
  /\ \A i \in 1..Len(calls) : ~Awaiting(i)
  /\ \E r \in lastResolved :
       /\ r.kind = "success"
       /\ r.currentSession < r.resolvedIn
  /\ \E k \in Positions : Entry(k).type = "narrator" /\ Entry(k).rt = 3
  /\ Len(history) = 2

\* ------------------------------------------------- the processing flag
\* C33: while isProcessing is true a call that will clear it is awaiting the
\* generator (a submitCommand, or an initializeGame of the current session),
\* and, every call resolving in the end and resets being finitely many,
\* isProcessing true leads to isProcessing false.
C33_ProcessingEventuallyCleared ==
  /\ [](isProcessing
         => \E i \in 1..Len(calls) :
              /\ Awaiting(i)
              /\ \/ calls[i].op = "submitCommand"
                 \/ calls[i].currentSession = initializationSession)
  /\ isProcessing ~> ~isProcessing

\* C33 witness: a reset was made while a call was in flight; the superseded
\* call and the reset's initialization have both resolved and the flag is
\* down.
C33_Witness ==
  /\ initializationSession >= 1
  /\ Len(calls) >= 2
  /\ \A i \in 1..Len(calls) : ~Awaiting(i)
  /\ \E r \in lastResolved : r.currentSession < r.resolvedIn
  /\ ~isProcessing

\* ------------------------------------------------ the failure taxonomy
FailureKindOrder == <<"auth", "rate_limit", "network", "validation">>

KindPatterns(kind) ==
  CASE kind = "auth" -> {"api key", "unauthorized", "401"}
    [] kind = "rate_limit" -> {"rate limit", "429", "quota"}
    [] kind = "network" -> {"timeout", "network", "fetch"}
    [] kind = "validation" -> {"parse", "json", "schema", "zod"}

\* the message of the thrown Error contains a pattern of the kind, in any case
MatchesKind(error, kind) ==
  /\ error.isError
  /\ \E word \in error.message : toLowerCase(word) \in KindPatterns(kind)

FixedMessages == {e.message : e \in SanitizedErrors}

EffectSettled == EffectDeps = narrativeLog.deps

\* the controller typewriterRef points to, if any
RefController ==
  IF narrativeLog.typewriterRef THEN narrativeLog.controller ELSE Undefined

EntryOf(id) ==
  {narrativeEntries[k] : k \in {j \in 1..Len(narrativeEntries) :
                                  narrativeEntries[j].rt = id}}

\* C31: the controller the component holds animates a narrator or ascii
\* entry, never a player or system entry; once the effect has run for the
\* current log, that entry is the latest narrator or ascii entry of
\* narrativeEntries; player and system entries are displayed with their full
\* content in every state, and only the latest narrator or ascii entry can be
\* displayed with less than its content.
C31_LatestNarratorAnimated ==
  /\ narrativeLog.typewriterRef =>
       \A id \in narrativeLog.animated : \A e \in EntryOf(id) :
         e.type \in {"narrator", "ascii"}
  /\ (EffectSettled /\ narrativeLog.typewriterRef) =>
       \E e \in lastNarratorEntry(narrativeEntries) :
         /\ e.type \in {"narrator", "ascii"}
         /\ narrativeLog.animated = Some(e.rt)
         /\ Val(narrativeLog.controller).fullText = e.content
         /\ \A k \in 1..Len(narrativeEntries) :
              narrativeEntries[k].type \in {"narrator", "ascii"}
                => narrativeEntries[k].rt <= e.rt
  /\ \A k \in 1..Len(narrativeEntries) :
       LET e == narrativeEntries[k]
       IN /\ e.type \in {"player", "system"}
               => getDisplayText(narrativeLog, narrativeEntries, e) = e.content
          /\ getDisplayText(narrativeLog, narrativeEntries, e) # e.content
               => /\ e.type \in {"narrator", "ascii"}
                  /\ \A j \in (k + 1)..Len(narrativeEntries) :
                       narrativeEntries[j].type \in {"player", "system"}

\* C31 witness: a narrator entry is half revealed while a player entry
\* appended after it shows in full, and a second narrator entry has taken the
\* animation over from a first.
C31_Witness ==
  /\ Len(narrativeEntries) = 3
  /\ narrativeEntries[1].type = "narrator"
  /\ narrativeEntries[2].type = "ascii"
  /\ narrativeEntries[3].type = "player"
  /\ narrativeEntries[3].content = <<"a", "b">>
  /\ EffectSettled /\ narrativeLog.typewriterRef
  /\ narrativeLog.animated = Some(narrativeEntries[2].rt)
  /\ 1 \notin narrativeLog.completedEntries
  /\ getDisplayText(narrativeLog, narrativeEntries, narrativeEntries[2]) = <<"a">>
  /\ narrativeEntries[2].content = <<"a", "b">>

\* C35: while the latest narrator or ascii entry has a controller that is
\* not complete, isTyping is true.
C35_TypingWhileAnimating ==
  ((/\ EffectSettled
    /\ narrativeLog.typewriterRef
    /\ \E e \in lastNarratorEntry(narrativeEntries) :
         narrativeLog.animated = Some(e.rt)
    /\ ~isComplete(Val(narrativeLog.controller)))
    => isTyping)

====
